---- MODULE Spec2Model ----
(***************************************************************************)
(* Model of the conversational finance-agent orchestrator of FinAi         *)
(* (fintech/backend/services/agent.py): the DjangoChatMemory store over    *)
(* the ChatMemory table, the greeting short-circuit and run_fintech_agent. *)
(***************************************************************************)
EXTENDS Integers, Sequences, FiniteSets

(***************************************************************************)
(* Bounds of the model.                                                    *)
(***************************************************************************)
\* concurrent run_fintech_agent calls (request slots)
NumSlots == 2
\* calls started in one behaviour
MaxCalls == 2
\* ticks of the wall clock that stamps ChatMemory rows
MaxClock == 1
\* save_context calls of the probed user in the store-level specification
MaxSaves == 3
\* save_context calls of the other user in the store-level specification
MaxForeign == 1
\* tool calls the model may issue during one invocation
MaxToolCalls == 1

(***************************************************************************)
(* Text.  A Python str is a sequence of one-character strings.             *)
(***************************************************************************)
UpperCase == <<"A","B","C","D","E","F","G","H","I","J","K","L","M",
               "N","O","P","Q","R","S","T","U","V","W","X","Y","Z">>
LowerCase == <<"a","b","c","d","e","f","g","h","i","j","k","l","m",
               "n","o","p","q","r","s","t","u","v","w","x","y","z">>
WhiteSpace == {" ", "\t", "\n"}

\* str.lower() on one character
LowerChar(ch) ==
    IF \E i \in 1..26 : UpperCase[i] = ch
    THEN LowerCase[CHOOSE i \in 1..26 : UpperCase[i] = ch]
    ELSE ch

\* str.upper() on one character
UpperChar(ch) ==
    IF \E i \in 1..26 : LowerCase[i] = ch
    THEN UpperCase[CHOOSE i \in 1..26 : LowerCase[i] = ch]
    ELSE ch

\* str.upper()
Upper(s) == [i \in 1..Len(s) |-> UpperChar(s[i])]

\* str.lower()
Lower(s) == [i \in 1..Len(s) |-> LowerChar(s[i])]

\* str.strip(): drop leading and trailing whitespace
Strip(s) ==
    LET keep == {i \in 1..Len(s) : s[i] \notin WhiteSpace}
    IN  IF keep = {} THEN <<>>
        ELSE LET lo == CHOOSE i \in keep : \A j \in keep : i <= j
                 hi == CHOOSE i \in keep : \A j \in keep : j <= i
             IN  SubSeq(s, lo, hi)

\* str.startswith(word)
StartsWith(s, word) ==
    /\ Len(word) <= Len(s)
    /\ SubSeq(s, 1, Len(word)) = word

\* word in s (substring test)
Contains(s, word) ==
    \E i \in 1..(Len(s) - Len(word) + 1) : SubSeq(s, i, i + Len(word) - 1) = word

\* len(s.split()): the number of maximal runs of non-whitespace characters
WordCount(s) ==
    Cardinality({i \in 1..Len(s) :
                    /\ s[i] \notin WhiteSpace
                    /\ (i = 1 \/ s[i-1] \in WhiteSpace)})

(***************************************************************************)
(* State.                                                                  *)
(***************************************************************************)
VARIABLES
    ChatMemory,   \* the ChatMemory table: rows in insertion order
    now,          \* the clock behind auto_now_add
    loaded,       \* the last store-level load: its arguments and its result
    apiKey,       \* whether GOOGLE_API_KEY is set in the environment
    uuids,        \* how many uuid4 session ids have been generated
    started,      \* how many run_fintech_agent calls have started
    calls,        \* per request slot: the locals of its run_fintech_agent call
    FinancialData,\* the Financial Data Store: the tables the tools query
    probe         \* the last operation applied directly: its inputs and outcome

storeVars == <<ChatMemory, now, loaded>>
toolVars == <<FinancialData, probe>>
agentVars == <<apiKey, uuids, started, calls, toolVars>>
vars == <<ChatMemory, now, loaded, apiKey, uuids, started, calls, FinancialData, probe>>

\* load_memory_variables slices the query at [:5]
HistoryLimit == 5

Min(a, b) == IF a <= b THEN a ELSE b

Reverse(s) == [i \in 1..Len(s) |-> s[Len(s) + 1 - i]]

(***************************************************************************)
(* DjangoChatMemory over the ChatMemory table.                             *)
(***************************************************************************)
\* the insert overwrites the newest row of the table instead of adding one
CreatedOverLast(table, row) ==
    IF table = <<>> THEN <<row>> ELSE [table EXCEPT ![Len(table)] = row]

\* the insert is skipped when the table holds an equal row
CreatedUnlessPresent(table, row) ==
    IF \E i \in 1..Len(table) : table[i] = row THEN table ELSE Append(table, row)

\* ChatMemory.objects.create(...): an INSERT, the table gets one more row and
\* keeps the rows it has
Created(table, row) == Append(table, row)

\* ChatMemory.objects.create(user_id, message_type, content, session_id):
\* timestamp is auto_now_add, the clock's value at the insert
NewRow(user_id, session_id, message_type, content) ==
    [user |-> user_id, session_id |-> session_id,
     message_type |-> message_type, content |-> content, timestamp |-> now]

\* the filter looks at the session id alone
FilterBySessionOnly(user_id, session_id) ==
    {i \in 1..Len(ChatMemory) : ChatMemory[i].session_id = session_id}

\* ChatMemory.objects.filter(user_id=..., session_id=...): positions of the rows
Filter(user_id, session_id) ==
    {i \in 1..Len(ChatMemory) :
        /\ ChatMemory[i].user = user_id
        /\ ChatMemory[i].session_id = session_id}

\* .order_by("-timestamp")[:limit], one query (ORDER BY timestamp DESC LIMIT
\* limit): every sequence of at most limit rows in which timestamps do not
\* increase and no row left out is newer than a row taken; rows with equal
\* timestamps come in an order the database chooses
RECURSIVE OrderByDescLimit(_, _)
OrderByDescLimit(S, limit) ==
    IF S = {} \/ limit = 0 THEN {<<>>}
    ELSE UNION {{<<i>> \o t : t \in OrderByDescLimit(S \ {i}, limit - 1)} :
                  i \in {x \in S : \A y \in S :
                            ChatMemory[x].timestamp >= ChatMemory[y].timestamp}}

\* the reversal left out: newest first
ChronologicalNewestFirst(q) == q

\* list(messages)[::-1]
Chronological(q) == Reverse(q)

\* the query of load_memory_variables with its slice as a parameter: the
\* possible results, as sequences of rows
LoadRecent(user_id, session_id, limit) ==
    {[k \in 1..Len(q) |-> ChatMemory[Chronological(q)[k]]] :
        q \in OrderByDescLimit(Filter(user_id, session_id), limit)}

\* the loop that turns rows into HumanMessage / AIMessage
ToMessages(rows) ==
    LET known == SelectSeq(rows, LAMBDA r : r.message_type \in {"user", "assistant"})
    IN  [k \in 1..Len(known) |->
            [type |-> IF known[k].message_type = "user" THEN "HumanMessage"
                      ELSE "AIMessage",
             content |-> known[k].content]]

\* the delete without its filter: every row goes
DeletedWholeTable(user_id, session_id) == <<>>

\* ChatMemory.objects.filter(user_id=..., session_id=...).delete()
Deleted(user_id, session_id) ==
    SelectSeq(ChatMemory,
              LAMBDA r : ~(r.user = user_id /\ r.session_id = session_id))

(***************************************************************************)
(* Store-level operations, applied directly.                               *)
(***************************************************************************)
StoreUsers == {1, 2}
StoreSession == "s1"
Limits == {1, HistoryLimit}

NoLoad == [done |-> FALSE]

RowsOf(user_id, session_id) == Cardinality(Filter(user_id, session_id))

\* the assistant's row goes in before the user's
SavedRowsAssistantFirst(input, output) == <<<<"assistant", output>>, <<"user", input>>>>

\* save_context: the rows it creates, in the order it creates them
SavedRows(input, output) == <<<<"user", input>>, <<"assistant", output>>>>

\* save_context(inputs, outputs): two creates inside one try; the first
\* create that fails ends the method (the exception is caught and printed).
\* The clock may advance between the two inserts.
SaveContext(user_id, session_id, input, output) ==
    /\ RowsOf(user_id, session_id) + 2 <=
          IF user_id = 1 THEN 2 * MaxSaves ELSE 2 * MaxForeign
    /\ \E ok1, ok2 \in BOOLEAN, dt \in {0, 1} :
          /\ now + dt <= MaxClock
          /\ ~(ok1 /\ ok2) => dt = 0
          /\ now' = now + dt
          /\ ChatMemory' =
                IF ~ok1 THEN ChatMemory
                ELSE LET m == SavedRows(input, output)
                         first == Created(ChatMemory,
                                          NewRow(user_id, session_id, m[1][1], m[1][2]))
                     IN  IF ~ok2 THEN first
                         ELSE Created(first,
                                      [NewRow(user_id, session_id, m[2][1], m[2][2])
                                          EXCEPT !.timestamp = now + dt])
    /\ loaded' = NoLoad
    /\ UNCHANGED agentVars

\* DjangoChatMemory.clear; a failing delete is caught and changes nothing
Clear(user_id, session_id) ==
    /\ Filter(user_id, session_id) # {}
    /\ \E ok \in BOOLEAN :
          ChatMemory' = IF ok THEN Deleted(user_id, session_id) ELSE ChatMemory
    /\ loaded' = NoLoad
    /\ UNCHANGED <<now, agentVars>>

\* the query of load_memory_variables; a failing query is caught and gives []
Load(user_id, session_id, limit) ==
    /\ \E ok \in BOOLEAN :
       \E rows \in (IF ok THEN LoadRecent(user_id, session_id, limit) ELSE {<<>>}) :
          loaded' = [done |-> TRUE, user |-> user_id, session_id |-> session_id,
                     limit |-> limit, failed |-> ~ok, rows |-> rows,
                     chat_history |-> ToMessages(rows)]
    /\ UNCHANGED <<ChatMemory, now, agentVars>>

\* time passes
Tick ==
    /\ now < MaxClock
    /\ now' = now + 1
    /\ loaded' = NoLoad
    /\ UNCHANGED <<ChatMemory, agentVars>>

(***************************************************************************)
(* Texts of the orchestrator.                                              *)
(***************************************************************************)
\* greeting_words of is_greeting_message
greeting_words ==
    {<<"h","e","l","l","o">>,
     <<"h","i">>,
     <<"h","e","y">>,
     <<"g","o","o","d"," ","m","o","r","n","i","n","g">>,
     <<"g","o","o","d"," ","a","f","t","e","r","n","o","o","n">>,
     <<"g","o","o","d"," ","e","v","e","n","i","n","g">>}

\* the message of the ValueError get_fintech_agent raises
MissingKeyMessage ==
    <<"G","O","O","G","L","E","_","A","P","I","_","K","E","Y"," ","e","n",
      "v","i","r","o","n","m","e","n","t"," ","v","a","r","i","a","b","l",
      "e"," ","i","s"," ","n","o","t"," ","s","e","t">>

\* the substrings the exception handler looks for
KeyMarker ==
    <<"G","O","O","G","L","E","_","A","P","I","_","K","E","Y">>
RateLimitMarker ==
    <<"r","a","t","e"," ","l","i","m","i","t">>

\* the characters of the texts the model names
Chars(name) ==
    CASE name = "hi" -> <<"h","i">>
      [] name = "balance" -> <<"b","a","l","a","n","c","e">>
      [] name = "missing key" -> MissingKeyMessage
      [] name = "Rate Limit reached" ->
            <<"R","a","t","e"," ","L","i","m","i","t"," ","r","e","a","c","h","e","d">>
      [] name = "timeout" -> <<"t","i","m","e","o","u","t">>
      [] name = "USD" -> <<"U","S","D">>
      [] name = "usd" -> <<"u","s","d">>
      [] name = "JPY" -> <<"J","P","Y">>
      [] name = "JOD" -> <<"J","O","D">>
      [] name = "EUR" -> <<"E","U","R">>
      [] name = "Arab Bank" -> <<"A","r","a","b"," ","B","a","n","k">>
      [] name = "Bank al Etihad" ->
            <<"B","a","n","k"," ","a","l"," ","E","t","i","h","a","d">>
      [] name = "arab" -> <<"a","r","a","b">>
      [] name = "zzz" -> <<"z","z","z">>
      [] name = "" -> <<>>

\* messages sent to the assistant
Prompts == {"hi", "balance"}
\* final texts the model produces
Outputs == {"a1"}
\* str(e) of the failures of the agent executor (model or tool)
InvokeErrors == {"Rate Limit reached", "timeout"}

\* the tool catalog handed to the agent
Tools ==
    {"get_user_balance", "get_user_accounts", "get_total_balance",
     "get_user_profile", "get_user_financial_overview",
     "get_user_account_summary", "get_fx_rate", "compare_fx_rates",
     "convert_currency", "get_bank_info", "get_available_currencies",
     "get_popular_currency_pairs", "check_account_balance",
     "get_all_banks_info", "get_user_connected_bank_products"}

(***************************************************************************)
(* Arguments of run_fintech_agent.                                         *)
(***************************************************************************)
\* user_id: None is 0 (both are false in "if user_id"); ids of users start at 1
NoUser == 0
UserIds == {1, 2}
\* session_id: None, the empty string of the web endpoint, or a given id
NoneSession == "<None>"
SessionArgs == {NoneSession, "", "s1"}
\* str(uuid.uuid4()): the n-th generated id, different from every other
Uuid4(n) == <<"uuid-1", "uuid-2", "uuid-3", "uuid-4", "uuid-5", "uuid-6">>[n]
\* memory = None
NoMemory == "<no memory>"

Slots == 1..NumSlots

(***************************************************************************)
(* The greeting short-circuit.                                             *)
(***************************************************************************)
\* the message is tested as typed, without strip()
is_greeting_message_untrimmed(prompt) ==
    LET prompt_lower == Lower(prompt)
    IN  \/ \E word \in greeting_words : StartsWith(prompt_lower, word)
        \/ \E word \in greeting_words : word = prompt_lower
        \/ /\ WordCount(prompt) <= 3
           /\ \E word \in greeting_words : Contains(prompt_lower, word)

is_greeting_message(prompt) ==
    LET prompt_lower == Strip(Lower(prompt))
    IN  \/ \E word \in greeting_words : StartsWith(prompt_lower, word)
        \/ \E word \in greeting_words : word = prompt_lower
        \/ /\ WordCount(prompt) <= 3
           /\ \E word \in greeting_words : Contains(prompt_lower, word)

\* the returned text: its kind, its variable part and a detail
Text(kind, text, detail) == [kind |-> kind, text |-> text, detail |-> detail]
NoResult == Text("", "", "")

\* get_personalized_greeting: user_found is whether User.objects.get finds the
\* user, hour is datetime.now().hour, account_count is accounts.count()
get_personalized_greeting(user_found, hour, account_count) ==
    IF ~user_found
    THEN Text("greeting", "Hello", "fallback")
    ELSE Text("greeting",
              IF hour < 12 THEN "Good morning"
              ELSE IF hour < 17 THEN "Good afternoon" ELSE "Good evening",
              IF account_count = 0 THEN "welcome"
              ELSE IF account_count = 1 THEN "one bank" ELSE "several banks")

Hours == {11, 12, 17}
AccountCounts == {0, 1, 2}

(***************************************************************************)
(* Decisions of run_fintech_agent.                                         *)
(***************************************************************************)
\* the short circuit ignores the user id
ShortCircuitsAnyone(user_id, prompt) == is_greeting_message(Chars(prompt))

\* the short circuit is off
ShortCircuitsNever(user_id, prompt) == FALSE

\* if user_id and is_greeting_message(prompt), on the characters of the prompt
ShortCut(user_id, message) ==
    user_id # NoUser /\ is_greeting_message(message)

\* if user_id and is_greeting_message(prompt)
ShortCircuits(user_id, prompt) == ShortCut(user_id, Chars(prompt))

\* only None gets a fresh id, the empty string is kept
SessionForKeepsEmpty(session_id, fresh) ==
    IF session_id # NoneSession THEN session_id ELSE fresh

\* session_id or str(uuid.uuid4())
SessionFor(session_id, fresh) ==
    IF session_id \notin {NoneSession, ""} THEN session_id ELSE fresh

\* memory is set up for everyone
UsesMemoryAlways(user_id) == TRUE

\* if user_id: (memory initialisation)
UsesMemory(user_id) == user_id # NoUser

\* the first four messages of the history instead of the last four
RecapFirstFour(chat_history) ==
    LET first4 == SubSeq(chat_history, 1, Min(4, Len(chat_history)))
    IN  [k \in 1..Len(first4) |->
            [role |-> IF first4[k].type = "HumanMessage" THEN "User" ELSE "Assistant",
             content |-> first4[k].content]]

\* conversation_context: the last four messages of the history, each with the
\* role its class stands for
Recap(chat_history) ==
    LET n == Len(chat_history)
        last4 == SubSeq(chat_history, IF n > 4 THEN n - 3 ELSE 1, n)
    IN  [k \in 1..Len(last4) |->
            [role |-> IF last4[k].type = "HumanMessage" THEN "User" ELSE "Assistant",
             content |-> last4[k].content]]

\* the handler lets the exception through
HandleExceptionReraises(error_msg) == Text("raised", error_msg, "")

\* the branch of the handler str(e) = error_msg takes: the marker of the
\* credential is looked for first, then "rate limit" in the lowered text
Handled(error_msg) ==
    IF Contains(error_msg, KeyMarker) THEN "api_key_error"
    ELSE IF Contains(Lower(error_msg), RateLimitMarker) THEN "rate_limit"
         ELSE "error"

\* except Exception as e: the three texts of the handler
HandleException(error_msg) ==
    LET kind == Handled(Chars(error_msg))
    IN  Text(kind, IF kind = "error" THEN error_msg ELSE "", "")

\* the save happens whether or not the agent returned
AfterInvokeAlwaysSaves(ok, memory, user_id) ==
    IF memory # NoMemory /\ user_id # NoUser THEN "save_user" ELSE "done"

\* where the call goes after agent_executor.invoke: to the save when the
\* agent returned and "if memory and user_id", else to its end
AfterInvoke(ok, memory, user_id) ==
    IF ok /\ memory # NoMemory /\ user_id # NoUser THEN "save_user" ELSE "done"

\* a failed save reaches the caller as an error text
AfterSaveFailureReports(response_content) == Text("error", "database is locked", "")

\* what the call returns when a create of save_context raised: the exception
\* is caught inside save_context, the response is returned
AfterSaveFailure(response_content) == Text("final", response_content, "")

(***************************************************************************)
(* run_fintech_agent, one step per action.                                 *)
(***************************************************************************)
IdleCall ==
    [pc |-> "idle", prompt |-> "", user_id |-> NoUser, session_id |-> NoneSession,
     memory |-> NoMemory, chat_history |-> <<>>, conversation_context |-> <<>>,
     user_context |-> NoUser, tools |-> {}, response_content |-> "",
     result |-> NoResult, steps |-> <<>>, written |-> <<>>,
     loaded_from |-> 0, loaded_rows |-> <<>>, invoked |-> 0, tools_called |-> 0]

Step(c, name) == Append(calls[c].steps, name)

\* the web endpoint or another caller calls run_fintech_agent; the request
\* takes the first free slot
Start(c, prompt, user_id, session_id) ==
    /\ calls[c].pc = "idle"
    /\ \A d \in Slots : d < c => calls[d].pc # "idle"
    /\ started < MaxCalls
    /\ started' = started + 1
    /\ calls' = [calls EXCEPT ![c] =
                    [IdleCall EXCEPT !.pc = "received", !.prompt = prompt,
                                     !.user_id = user_id, !.session_id = session_id]]
    /\ UNCHANGED <<ChatMemory, now, loaded, toolVars, apiKey, uuids>>

\* the greeting is returned at once
Greet(c) ==
    /\ calls[c].pc = "received"
    /\ ShortCircuits(calls[c].user_id, calls[c].prompt)
    /\ \E user_found \in BOOLEAN, hour \in Hours, account_count \in AccountCounts :
          calls' = [calls EXCEPT
                       ![c].pc = "done",
                       ![c].steps = Step(c, "greeting"),
                       ![c].result =
                           get_personalized_greeting(user_found, hour, account_count)]
    /\ UNCHANGED <<ChatMemory, now, loaded, toolVars, apiKey, uuids, started>>

\* llm = get_fintech_agent(); tools = [...]
GetAgent(c) ==
    /\ calls[c].pc = "received"
    /\ ~ShortCircuits(calls[c].user_id, calls[c].prompt)
    /\ calls' = IF apiKey
                THEN [calls EXCEPT ![c].pc = "memory",
                                   ![c].steps = Step(c, "get_fintech_agent"),
                                   ![c].tools = Tools]
                ELSE [calls EXCEPT ![c].pc = "done",
                                   ![c].steps = Step(c, "get_fintech_agent"),
                                   ![c].result = HandleException("missing key")]
    /\ UNCHANGED <<ChatMemory, now, loaded, toolVars, apiKey, uuids, started>>

\* memory initialisation, history load, conversation context, user context
LoadMemory(c) ==
    /\ calls[c].pc = "memory"
    /\ IF UsesMemory(calls[c].user_id)
       THEN LET fresh == Uuid4(uuids + 1)
                sid == SessionFor(calls[c].session_id, fresh)
            IN  /\ uuids' = IF sid = fresh THEN uuids + 1 ELSE uuids
                /\ \E ok \in BOOLEAN :
                   \E rows \in (IF ok
                                THEN LoadRecent(calls[c].user_id, sid, HistoryLimit)
                                ELSE {<<>>}) :
                      calls' = [calls EXCEPT
                                   ![c].pc = "invoke",
                                   ![c].steps = Step(c, "load"),
                                   ![c].memory = sid,
                                   ![c].loaded_from =
                                       IF ok THEN RowsOf(calls[c].user_id, sid) ELSE -1,
                                   ![c].loaded_rows = rows,
                                   ![c].chat_history = ToMessages(rows),
                                   ![c].conversation_context = Recap(ToMessages(rows)),
                                   ![c].user_context = calls[c].user_id]
       ELSE /\ uuids' = uuids
            /\ calls' = [calls EXCEPT ![c].pc = "invoke"]
    /\ UNCHANGED <<ChatMemory, now, loaded, toolVars, apiKey, started>>

\* agent_executor.invoke: the model answers after calling some tools, or the
\* invocation (or a tool) raises
Invoke(c) ==
    /\ calls[c].pc = "invoke"
    /\ \E n \in 0..MaxToolCalls :
          \/ \E out \in Outputs :
                LET to == AfterInvoke(TRUE, calls[c].memory, calls[c].user_id)
                IN  calls' = [calls EXCEPT
                                 ![c].pc = to,
                                 ![c].steps = Step(c, "invoke"),
                                 ![c].invoked = 1,
                                 ![c].tools_called = n,
                                 ![c].response_content = out,
                                 ![c].result =
                                     IF to = "done" THEN Text("final", out, "")
                                     ELSE NoResult]
          \/ \E err \in InvokeErrors :
                LET to == AfterInvoke(FALSE, calls[c].memory, calls[c].user_id)
                IN  calls' = [calls EXCEPT
                                 ![c].pc = to,
                                 ![c].steps = Step(c, "invoke"),
                                 ![c].invoked = 1,
                                 ![c].tools_called = n,
                                 ![c].response_content = IF to = "done" THEN "" ELSE err,
                                 ![c].result =
                                     IF to = "done" THEN HandleException(err)
                                     ELSE NoResult]
    /\ UNCHANGED <<ChatMemory, now, loaded, toolVars, apiKey, uuids, started>>

\* one create of save_context: k = 1 the user message, k = 2 the assistant's
Save(c, k) ==
    /\ calls[c].pc = (IF k = 1 THEN "save_user" ELSE "save_assistant")
    /\ LET m == SavedRows(calls[c].prompt, calls[c].response_content)[k]
           row == NewRow(calls[c].user_id, calls[c].memory, m[1], m[2])
       IN  \/ /\ ChatMemory' = Created(ChatMemory, row)
              /\ calls' = [calls EXCEPT
                              ![c].pc = IF k = 1 THEN "save_assistant" ELSE "done",
                              ![c].steps = Step(c, "save"),
                              ![c].written = Append(calls[c].written, row),
                              ![c].result =
                                  IF k = 1 THEN NoResult
                                  ELSE Text("final", calls[c].response_content, "")]
           \/ /\ ChatMemory' = ChatMemory
              /\ calls' = [calls EXCEPT
                              ![c].pc = "done",
                              ![c].steps = Step(c, "save failed"),
                              ![c].result = AfterSaveFailure(calls[c].response_content)]
    /\ UNCHANGED <<now, loaded, toolVars, apiKey, uuids, started>>

\* the caller takes the returned text; the slot is free again
Return(c) ==
    /\ calls[c].pc = "done"
    /\ calls' = [calls EXCEPT ![c] = IdleCall]
    /\ UNCHANGED <<ChatMemory, now, loaded, toolVars, apiKey, uuids, started>>

\* DjangoChatMemory(user_id, session_id).clear()
ClearSession(user_id, session_id) ==
    /\ Filter(user_id, session_id) # {}
    /\ \E ok \in BOOLEAN :
          ChatMemory' = IF ok THEN Deleted(user_id, session_id) ELSE ChatMemory
    /\ UNCHANGED <<now, loaded, agentVars>>

(***************************************************************************)
(* The Financial Data Store (models.py), as the tools query it.            *)
(***************************************************************************)
\* conversion_value is a DecimalField with decimal_places=6: a rate is held
\* as its number of millionths
Millionths == 1000000

\* FXRate rows the tables of the model are made of; effective_date is a day
\* number.  Two rows of USD/JOD carry the same effective_date, and the newest
\* row of the table is of another pair.
RatePool ==
    <<[FinancialInstitution |-> "Arab Bank", source_currency |-> "USD",
       target_currency |-> "JOD", conversion_value |-> 709000,
       effective_date |-> 1],
      [FinancialInstitution |-> "Arab Bank", source_currency |-> "USD",
       target_currency |-> "JOD", conversion_value |-> 710000,
       effective_date |-> 2],
      [FinancialInstitution |-> "Bank al Etihad", source_currency |-> "USD",
       target_currency |-> "JOD", conversion_value |-> 708000,
       effective_date |-> 2],
      [FinancialInstitution |-> "Bank al Etihad", source_currency |-> "JPY",
       target_currency |-> "JOD", conversion_value |-> 4500,
       effective_date |-> 3]>>

\* the rows of a pool at the positions S, in the pool's order
RECURSIVE Rows(_, _)
Rows(pool, S) ==
    IF S = {} THEN <<>>
    ELSE LET i == CHOOSE x \in S : \A y \in S : x <= y
         IN  <<pool[i]>> \o Rows(pool, S \ {i})

\* the FXRate tables of the model
RateTables == {Rows(RatePool, S) : S \in SUBSET (1..Len(RatePool))}

\* Accounts rows: available_balance is <<>> for NULL and otherwise holds the
\* balance in hundredths
AccountPool ==
    <<[user |-> 1, financial_institution |-> "Arab Bank", account_id |-> "A-1",
       account_currency |-> "JOD", available_balance |-> <<12050>>,
       account_status |-> "ACTIVE"]>>

\* the Accounts tables of the model
AccountTables == {Rows(AccountPool, S) : S \in SUBSET (1..Len(AccountPool))}

\* the FinancialInstitution rows behind the pools
Institutions == {"Arab Bank", "Bank al Etihad"}

\* a Financial Data Store: the User, FinancialInstitution, FXRate and Accounts
\* tables
Store(rates, accounts) ==
    [User |-> {1}, FinancialInstitution |-> Institutions,
     FXRate |-> rates, Accounts |-> accounts]

FinancialStores ==
    {Store(rates, accounts) : rates \in RateTables, accounts \in AccountTables}

\* the store behind the orchestrator's runs
SeedData == Store(RatePool, AccountPool)

\* nothing has been applied directly
NoProbe == [op |-> "none"]

Init ==
    /\ ChatMemory = <<>>
    /\ now = 0
    /\ loaded = NoLoad
    /\ apiKey \in BOOLEAN
    /\ uuids = 0
    /\ started = 0
    /\ calls = [c \in Slots |-> IdleCall]
    /\ FinancialData = SeedData
    /\ probe = NoProbe

StoreNext ==
    \/ \E u \in StoreUsers : SaveContext(u, StoreSession, "balance", "a1")
    \/ \E u \in StoreUsers : Clear(u, StoreSession)
    \/ \E u \in StoreUsers, limit \in Limits : Load(u, StoreSession, limit)
    \/ Tick

\* the memory store used directly, the credential present
StoreInit == Init /\ apiKey = TRUE

StoreSpec == StoreInit /\ [][StoreNext]_vars

Next ==
    \/ \E c \in Slots, prompt \in Prompts, user_id \in UserIds \cup {NoUser},
          session_id \in SessionArgs : Start(c, prompt, user_id, session_id)
    \/ \E c \in Slots : Greet(c)
    \/ \E c \in Slots : GetAgent(c)
    \/ \E c \in Slots : LoadMemory(c)
    \/ \E c \in Slots : Invoke(c)
    \/ \E c \in Slots, k \in {1, 2} : Save(c, k)
    \/ \E c \in Slots : Return(c)
    \/ \E u \in UserIds : ClearSession(u, "s1")
    \/ Tick

\* concurrent calls of run_fintech_agent over one store
Spec == Init /\ [][Next]_vars

(***************************************************************************)
(* Properties of the memory store (StoreSpec).                             *)
(***************************************************************************)
Instants == 0..(MaxClock + 1)

\* positions of the stored rows of the pair the last load asked for
LoadedFrom == Filter(loaded.user, loaded.session_id)

\* the row inserted last for the pair the last load asked for
LastInserted ==
    ChatMemory[CHOOSE i \in LoadedFrom : \A j \in LoadedFrom : j <= i]

\* C9: a load with slice limit returns at most limit rows, all of them rows
\* of the (user, session) asked for, oldest first (timestamps never decrease
\* along the result); they are the most recent ones: for every instant t the
\* result holds as many rows stamped t or later as the store does, up to
\* limit (a load whose query raised returns the empty list instead); with
\* nothing stored the result is empty; and the chat history handed back is
\* the rows' roles and contents, in that order.
C9_LoadRecentMostRecentAscending ==
    loaded.done =>
        LET rows == loaded.rows
        IN  /\ Len(rows) <= loaded.limit
            /\ \A k \in 1..Len(rows) :
                  /\ rows[k].user = loaded.user
                  /\ rows[k].session_id = loaded.session_id
                  /\ \E i \in LoadedFrom : ChatMemory[i] = rows[k]
            /\ \A i, j \in 1..Len(rows) :
                  i < j => rows[i].timestamp <= rows[j].timestamp
            /\ ~loaded.failed =>
                  \A t \in Instants :
                     Cardinality({k \in 1..Len(rows) : rows[k].timestamp >= t})
                       = Min(loaded.limit,
                             Cardinality({i \in LoadedFrom :
                                             ChatMemory[i].timestamp >= t}))
            /\ LoadedFrom = {} => rows = <<>>
            /\ Len(loaded.chat_history) = Len(rows)
            /\ \A k \in 1..Len(rows) :
                  /\ loaded.chat_history[k].content = rows[k].content
                  /\ (loaded.chat_history[k].type = "HumanMessage")
                        <=> (rows[k].message_type = "user")

\* C9 witness: a load at the history limit from a pair that holds more rows
\* than the limit, stamped at different instants
C9_Witness ==
    /\ loaded.done
    /\ ~loaded.failed
    /\ loaded.limit = HistoryLimit
    /\ Cardinality(LoadedFrom) > HistoryLimit
    /\ Len(loaded.rows) = HistoryLimit
    /\ loaded.rows[1].timestamp < loaded.rows[HistoryLimit].timestamp

\* C10: a load of the most recent 1 message of a pair, its query not failing,
\* returns exactly the message inserted last for that pair (same role and
\* content).
C10_AppendThenLoadOne ==
    (/\ loaded.done
     /\ ~loaded.failed
     /\ loaded.limit = 1
     /\ LoadedFrom # {})
    => /\ Len(loaded.rows) = 1
       /\ loaded.rows[1].message_type = LastInserted.message_type
       /\ loaded.rows[1].content = LastInserted.content

(***************************************************************************)
(* Properties of run_fintech_agent (Spec).                                 *)
(***************************************************************************)
Active(c) == calls[c].pc # "idle"
Finished(c) == calls[c].pc = "done"
PastReceived(c) == calls[c].pc \notin {"idle", "received"}
GreetingPrompt(c) == is_greeting_message(Chars(calls[c].prompt))
Omitted(c) == calls[c].session_id \in {NoneSession, ""}
SaveSteps == {"save", "save failed"}
StepSet(c) == {calls[c].steps[i] : i \in 1..Len(calls[c].steps)}
GreetingTexts ==
    {get_personalized_greeting(f, h, a) :
        f \in BOOLEAN, h \in Hours, a \in AccountCounts}
ErrorKinds == {"api_key_error", "rate_limit", "error"}
\* the rows save_context is to create for call c
Expected(c) ==
    <<[user |-> calls[c].user_id, session_id |-> calls[c].memory,
       message_type |-> "user", content |-> calls[c].prompt],
      [user |-> calls[c].user_id, session_id |-> calls[c].memory,
       message_type |-> "assistant", content |-> calls[c].response_content]>>
\* a row without its timestamp
Message(row) ==
    [user |-> row.user, session_id |-> row.session_id,
     message_type |-> row.message_type, content |-> row.content]
Messages(rows) == [k \in 1..Len(rows) |-> Message(rows[k])]

\* C1: a call with a user id and a greeting message ends in its first step
\* with the text of get_personalized_greeting; the model is not invoked, no
\* tool is called, the memory store is not read (no memory object, no load)
\* and nothing is written to it.
C1_GreetingShortCircuit ==
    \A c \in Slots :
        (PastReceived(c) /\ calls[c].user_id # NoUser /\ GreetingPrompt(c)) =>
            /\ Finished(c)
            /\ calls[c].steps = <<"greeting">>
            /\ calls[c].result \in GreetingTexts
            /\ calls[c].invoked = 0
            /\ calls[c].tools_called = 0
            /\ calls[c].tools = {}
            /\ calls[c].memory = NoMemory
            /\ calls[c].chat_history = <<>>
            /\ calls[c].written = <<>>

\* C1 witness: a greeting answered for a user whose session holds messages
C1_Witness ==
    \E c \in Slots :
        /\ Finished(c)
        /\ calls[c].result.kind = "greeting"
        /\ calls[c].session_id = "s1"
        /\ Filter(calls[c].user_id, "s1") # {}

\* C2 as stated: a call without a user id never returns the greeting and
\* always has the model invoked with the tool catalog.
C2_AnonymousAlwaysInvokesModel ==
    \A c \in Slots :
        (Finished(c) /\ calls[c].user_id = NoUser) =>
            /\ calls[c].result.kind # "greeting"
            /\ calls[c].invoked = 1
            /\ calls[c].tools = Tools

\* C2 amended: a call without a user id never returns the greeting and
\* always proceeds to the model path: its first step is the credential
\* lookup of get_fintech_agent; when the credential is set the model is
\* invoked with the tool catalog, when it is missing the call returns the
\* configuration-error text without invoking the model.
C2_AnonymousTakesModelPath ==
    \A c \in Slots :
        (PastReceived(c) /\ calls[c].user_id = NoUser) =>
            /\ calls[c].steps[1] = "get_fintech_agent"
            /\ "greeting" \notin StepSet(c)
            /\ calls[c].result.kind # "greeting"
            /\ (apiKey /\ Finished(c)) =>
                  /\ calls[c].invoked = 1
                  /\ calls[c].tools = Tools
            /\ ~apiKey =>
                  /\ Finished(c)
                  /\ calls[c].invoked = 0
                  /\ calls[c].result = Text("api_key_error", "", "")

\* C2 witness: "hi" without a user id answered by the model
C2_Witness ==
    \E c \in Slots :
        /\ Finished(c)
        /\ calls[c].user_id = NoUser
        /\ calls[c].prompt = "hi"
        /\ calls[c].invoked = 1
        /\ calls[c].result.kind = "final"

\* C3: every call that ends, ends by returning a text: the greeting, the
\* model's final text or one of the three error texts; no failure of the
\* credential lookup, the history load, the invocation or the save leaves
\* the call as a raised exception, and a call that has not ended can step.
C3_AlwaysReturnsText ==
    \A c \in Slots :
        /\ calls[c].pc \in {"idle", "received", "memory", "invoke",
                            "save_user", "save_assistant", "done"}
        /\ Finished(c) =>
              calls[c].result.kind \in {"greeting", "final"} \cup ErrorKinds
        /\ ~Finished(c) => calls[c].result = NoResult

\* C3 witness: a call whose history load failed and whose invocation raised
C3_Witness ==
    \E c \in Slots :
        /\ Finished(c)
        /\ calls[c].loaded_from = -1
        /\ calls[c].result.kind = "error"

\* C4 as stated: a non-greeting call with a user id whose model invocation
\* succeeded has appended exactly two messages, the user's then the
\* assistant's.
C4_ExactlyTwoAppended ==
    \A c \in Slots :
        (/\ Finished(c)
         /\ calls[c].user_id # NoUser
         /\ ~GreetingPrompt(c)
         /\ calls[c].result.kind = "final")
        => Messages(calls[c].written) = Expected(c)

\* C4 amended: such a call has appended, for (user id, session id), the
\* user's message and then the assistant's final text when both appends
\* succeeded; nothing when the first append failed; the user's message
\* alone when the second failed.
C4_AppendsUserThenAssistant ==
    \A c \in Slots :
        (/\ Finished(c)
         /\ calls[c].user_id # NoUser
         /\ ~GreetingPrompt(c)
         /\ calls[c].result.kind = "final")
        => /\ calls[c].response_content \in Outputs
           /\ "save failed" \notin StepSet(c) =>
                 Messages(calls[c].written) = Expected(c)
           /\ "save failed" \in StepSet(c) =>
                 \/ calls[c].written = <<>>
                 \/ Messages(calls[c].written) = <<Expected(c)[1]>>

\* C4 witness: a call that appended both messages
C4_Witness ==
    \E c \in Slots :
        /\ Finished(c)
        /\ calls[c].result.kind = "final"
        /\ Len(calls[c].written) = 2
        /\ calls[c].written[1].message_type = "user"

\* C5: when a create of save_context fails, first or second, the call still
\* returns exactly the model's final text.
C5_SaveFailureSwallowed ==
    \A c \in Slots :
        (Finished(c) /\ "save failed" \in StepSet(c)) =>
            /\ calls[c].response_content \in Outputs
            /\ calls[c].result = Text("final", calls[c].response_content, "")

\* C5 witness: the second create failed after the first went in
C5_Witness ==
    \E c \in Slots :
        /\ Finished(c)
        /\ "save failed" \in StepSet(c)
        /\ Len(calls[c].written) = 1

\* C6: in a non-greeting call with a user id the steps come in the order
\* credential lookup, load, invoke, save, return; rows are written only
\* after the invocation returned a final text, so a call that ends with an
\* error text (credential, invocation or tool failure) has written nothing.
C6_LoadInvokePersistReturn ==
    \A c \in Slots :
        (Active(c) /\ calls[c].user_id # NoUser /\ ~GreetingPrompt(c)) =>
            /\ \A i \in 1..Len(calls[c].steps) :
                  LET st == calls[c].steps[i]
                  IN  /\ st = "get_fintech_agent" <=> i = 1
                      /\ st = "load" <=> i = 2
                      /\ st = "invoke" <=> i = 3
                      /\ st \in SaveSteps <=> i \in {4, 5}
            /\ calls[c].written # <<>> =>
                  /\ calls[c].invoked = 1
                  /\ calls[c].response_content \in Outputs
                  /\ Len(calls[c].steps) >= 4
            /\ calls[c].invoked = 1 => "load" \in StepSet(c)
            /\ (Finished(c) /\ calls[c].result.kind \in ErrorKinds) =>
                  /\ calls[c].written = <<>>
                  /\ StepSet(c) \cap SaveSteps = {}
            /\ calls[c].result # NoResult => Finished(c)

\* C6 witness: the invocation failed in a session that holds messages
C6_Witness ==
    \E c \in Slots :
        /\ Finished(c)
        /\ calls[c].user_id # NoUser
        /\ calls[c].result.kind = "rate_limit"
        /\ calls[c].loaded_from > 0

\* C7: a call without a user id has no memory object, loads no history,
\* puts no recap and no user marker in the prompt and writes no row,
\* whether its invocation succeeds or fails.
C7_AnonymousStateless ==
    \A c \in Slots :
        (Active(c) /\ calls[c].user_id = NoUser) =>
            /\ calls[c].memory = NoMemory
            /\ calls[c].chat_history = <<>>
            /\ calls[c].conversation_context = <<>>
            /\ calls[c].user_context = NoUser
            /\ calls[c].written = <<>>
            /\ "load" \notin StepSet(c)
            /\ StepSet(c) \cap SaveSteps = {}

\* C7 witness: an anonymous call passing a session id, answered while the
\* store holds messages
C7_Witness ==
    \E c \in Slots :
        /\ Finished(c)
        /\ calls[c].user_id = NoUser
        /\ calls[c].session_id = "s1"
        /\ calls[c].result.kind = "final"
        /\ ChatMemory # <<>>

\* C8: a call with a user id and no session id (None or "") works on a
\* generated id that no other call and no caller-given id equals; the
\* history it loads is empty; the rows stored under a generated id are one
\* call's (two at most).  A call that passes a session id works on that id,
\* and its history is, the query not failing, the rows stored for (user,
\* that id), up to the history limit.
C8_SessionIdentity ==
    /\ \A c \in Slots :
          calls[c].memory # NoMemory =>
              /\ Omitted(c) =>
                    /\ \E n \in 1..uuids : calls[c].memory = Uuid4(n)
                    /\ calls[c].memory \notin SessionArgs
                    /\ calls[c].chat_history = <<>>
                    /\ calls[c].loaded_from \in {0, -1}
                    /\ \A d \in Slots \ {c} : calls[d].memory # calls[c].memory
              /\ ~Omitted(c) =>
                    /\ calls[c].memory = calls[c].session_id
                    /\ calls[c].loaded_from >= 0 =>
                          Len(calls[c].chat_history)
                             = Min(HistoryLimit, calls[c].loaded_from)
    /\ \A i \in 1..Len(ChatMemory) :
          ChatMemory[i].session_id \notin SessionArgs =>
              /\ \E n \in 1..uuids : ChatMemory[i].session_id = Uuid4(n)
              /\ RowsOf(ChatMemory[i].user, ChatMemory[i].session_id) <= 2

\* C8 witness: a call that omits the session id has loaded nothing although
\* an earlier call of the same user that omitted it too has stored its
\* messages
C8_Witness ==
    \E c \in Slots :
        /\ calls[c].pc = "invoke"
        /\ calls[c].session_id = ""
        /\ calls[c].loaded_from = 0
        /\ \E i \in 1..Len(ChatMemory) :
              /\ ChatMemory[i].user = calls[c].user_id
              /\ ChatMemory[i].session_id = Uuid4(1)

(***************************************************************************)
(* clear, applied directly and observed (ClearSpec).                       *)
(***************************************************************************)
\* save_context calls before the store of ClearSpec is full
MaxCleared == 2

\* the rows a clear leaves: those of the filter are deleted, or, when the
\* delete raises, none (the exception is caught and printed)
Cleared(user_id, session_id, ok) ==
    IF ok THEN Deleted(user_id, session_id) ELSE ChatMemory

\* DjangoChatMemory(user_id, session_id).clear(), recorded: raised is whether
\* an exception left the method, failed whether the delete raised inside it,
\* found and left the table before and after it; again marks a clear of the pair the clear before
\* it was for, with nothing done to the table in between, and first_failed,
\* first_left are that first clear's failed and left
ClearProbe(user_id, session_id) ==
    /\ \E ok \in BOOLEAN :
          LET again == /\ probe.op = "clear"
                       /\ probe.user = user_id
                       /\ probe.session_id = session_id
                       /\ probe.left = ChatMemory
          IN  /\ ChatMemory' = Cleared(user_id, session_id, ok)
              /\ probe' = [op |-> "clear", user |-> user_id,
                           session_id |-> session_id, raised |-> FALSE,
                           failed |-> ~ok, found |-> ChatMemory,
                           left |-> ChatMemory',
                           again |-> again,
                           first_failed |-> IF again THEN probe.failed ELSE FALSE,
                           first_left |-> IF again THEN probe.left ELSE <<>>]
    /\ loaded' = NoLoad
    /\ UNCHANGED <<now, apiKey, uuids, started, calls, FinancialData>>

ClearNext ==
    \/ \E u \in StoreUsers :
          /\ Len(ChatMemory) < 2 * MaxCleared
          /\ SaveContext(u, StoreSession, "balance", "a1")
    \/ \E u \in StoreUsers : ClearProbe(u, StoreSession)
    \/ \E u \in StoreUsers : Load(u, StoreSession, HistoryLimit)
    \/ Tick

ClearSpec == StoreInit /\ [][ClearNext]_vars

\* the last load follows the last clear, for the same pair, with the table as
\* the clear left it
LoadAfterClear ==
    /\ probe.op = "clear"
    /\ loaded.done
    /\ loaded.user = probe.user
    /\ loaded.session_id = probe.session_id
    /\ ChatMemory = probe.left

\* C11 as stated: a load that follows a clear of the same pair returns the
\* empty sequence, and a second clear raises no error and leaves the store
\* exactly as the first clear left it.
C11_ClearThenLoadEmpty ==
    /\ LoadAfterClear => loaded.rows = <<>> /\ loaded.chat_history = <<>>
    /\ (probe.op = "clear" /\ probe.again) =>
          ~probe.raised /\ probe.left = probe.first_left

\* C11 amended: no clear raises; a clear whose delete did not fail leaves no
\* row of its pair and every row of the other pairs, a load that follows it
\* returns the empty sequence, and a second clear after it leaves the store
\* exactly as it was left; a clear whose delete failed leaves the store as it
\* found it.
C11_SuccessfulClearThenLoadEmpty ==
    /\ probe.op = "clear" =>
          /\ ~probe.raised
          /\ ~probe.failed =>
                probe.left =
                    SelectSeq(probe.found,
                              LAMBDA r : \/ r.user # probe.user
                                         \/ r.session_id # probe.session_id)
          /\ probe.failed => probe.left = probe.found
    /\ (LoadAfterClear /\ ~probe.failed) =>
          loaded.rows = <<>> /\ loaded.chat_history = <<>>
    /\ (probe.op = "clear" /\ probe.again /\ ~probe.first_failed) =>
          probe.left = probe.first_left

\* C11 witness: a second clear after a first that deleted rows of its pair
\* and kept the other user's, followed by a load of the pair
C11_Witness ==
    /\ LoadAfterClear
    /\ ~loaded.failed
    /\ probe.again
    /\ ~probe.first_failed
    /\ ~probe.failed
    /\ probe.left # <<>>

(***************************************************************************)
(* Properties of the memory store under run_fintech_agent (Spec).          *)
(***************************************************************************)
\* the rows of table that are not of the pair, in their order
Others(table, user_id, session_id) ==
    SelectSeq(table, LAMBDA r : r.user # user_id \/ r.session_id # session_id)

\* C12: under run_fintech_agent the memory store only grows: a step of a
\* call leaves every stored message where it is, with its user, session,
\* role, content and timestamp, and adds at most one message after them; a
\* step that is not of a call removes nothing, or it is a clear and removes
\* messages of one (user, session) only, leaving all others as they are.
C12_AppendOnly ==
    [][IF calls' # calls
       THEN /\ Len(ChatMemory') \in {Len(ChatMemory), Len(ChatMemory) + 1}
            /\ \A i \in 1..Len(ChatMemory) : ChatMemory'[i] = ChatMemory[i]
       ELSE \/ ChatMemory' = ChatMemory
            \/ \E u \in UserIds, sid \in {"s1"} :
                  ChatMemory' = Others(ChatMemory, u, sid)]_vars

\* C12 witness: a call has ended having appended its two messages after the
\* two messages an earlier call left in the store
C12_Witness ==
    \E c \in Slots :
        /\ Finished(c)
        /\ Len(calls[c].written) = 2
        /\ Len(ChatMemory) = 4
        /\ ChatMemory[3] = calls[c].written[1]
        /\ ChatMemory[4] = calls[c].written[2]
        /\ ChatMemory[1].session_id # calls[c].memory

(***************************************************************************)
(* Concurrent calls without a clear (ConcSpec).                            *)
(***************************************************************************)
ConcNext ==
    \/ \E c \in Slots, prompt \in Prompts, user_id \in UserIds \cup {NoUser},
          session_id \in SessionArgs : Start(c, prompt, user_id, session_id)
    \/ \E c \in Slots : Greet(c)
    \/ \E c \in Slots : GetAgent(c)
    \/ \E c \in Slots : LoadMemory(c)
    \/ \E c \in Slots : Invoke(c)
    \/ \E c \in Slots, k \in {1, 2} : Save(c, k)
    \/ \E c \in Slots : Return(c)
    \/ Tick

\* calls of run_fintech_agent over one store that nobody clears
ConcSpec == Init /\ [][ConcNext]_vars

\* call c took the model path with a user id, its invocation and both its
\* appends succeeded, and it has completed
CompletedSaved(c) ==
    /\ Finished(c)
    /\ calls[c].user_id # NoUser
    /\ ~GreetingPrompt(c)
    /\ calls[c].result.kind = "final"
    /\ "save failed" \notin StepSet(c)

\* C13: when calls on the same (user, session) have all completed with
\* their invocations and appends successful, the store holds, for each of
\* them, its user message and after it its assistant reply, each call's two
\* rows at positions of their own: no append is lost or overwritten,
\* whatever the interleaving.
C13_NoLostAppend ==
    /\ \A c \in Slots :
          CompletedSaved(c) =>
             /\ Messages(calls[c].written) = Expected(c)
             /\ \E i, j \in Filter(calls[c].user_id, calls[c].memory) :
                   /\ i < j
                   /\ ChatMemory[i] = calls[c].written[1]
                   /\ ChatMemory[j] = calls[c].written[2]
    /\ \A c, d \in Slots :
          (/\ c # d
           /\ CompletedSaved(c)
           /\ CompletedSaved(d)
           /\ calls[c].user_id = calls[d].user_id
           /\ calls[c].memory = calls[d].memory) =>
             \E i1, i2, j1, j2 \in Filter(calls[c].user_id, calls[c].memory) :
                /\ i1 < i2
                /\ j1 < j2
                /\ {i1, i2} \cap {j1, j2} = {}
                /\ ChatMemory[i1] = calls[c].written[1]
                /\ ChatMemory[i2] = calls[c].written[2]
                /\ ChatMemory[j1] = calls[d].written[1]
                /\ ChatMemory[j2] = calls[d].written[2]

\* C13 witness: two calls on the same (user, session) have completed after
\* interleaving their appends: both user messages are stored before both
\* replies
C13_Witness ==
    /\ \A c \in Slots : CompletedSaved(c)
    /\ \A c, d \in Slots :
          calls[c].user_id = calls[d].user_id /\ calls[c].memory = calls[d].memory
    /\ Len(ChatMemory) = 4
    /\ ChatMemory[1].message_type = "user"
    /\ ChatMemory[2].message_type = "user"
    /\ ChatMemory[3].message_type = "assistant"
    /\ ChatMemory[4].message_type = "assistant"

(***************************************************************************)
(* Timestamps of the stored messages (StoreSpec).                          *)
(***************************************************************************)
\* C14: in every reachable state no two messages of the same (user, session)
\* carry the same timestamp, so that the timestamp orders them strictly.
C14_StrictTimestamps ==
    \A i, j \in 1..Len(ChatMemory) :
        (/\ i # j
         /\ ChatMemory[i].user = ChatMemory[j].user
         /\ ChatMemory[i].session_id = ChatMemory[j].session_id)
        => ChatMemory[i].timestamp # ChatMemory[j].timestamp

(***************************************************************************)
(* One conversation, turn after turn (ChatSpec).                           *)
(***************************************************************************)
\* turns of the conversation
MaxTurns == 4

\* the web endpoint passes the next message of user 1's session "s1" on
StartTurn(c) ==
    /\ calls[c].pc = "idle"
    /\ started < MaxTurns
    /\ started' = started + 1
    /\ calls' = [calls EXCEPT ![c] =
                    [IdleCall EXCEPT !.pc = "received", !.prompt = "balance",
                                     !.user_id = 1, !.session_id = "s1"]]
    /\ UNCHANGED <<ChatMemory, now, loaded, toolVars, apiKey, uuids>>

ChatNext ==
    \/ StartTurn(1)
    \/ GetAgent(1)
    \/ LoadMemory(1)
    \/ Invoke(1)
    \/ \E k \in {1, 2} : Save(1, k)
    \/ Return(1)
    \/ Tick

\* the turns of one session, one call at a time
ChatSpec == Init /\ [][ChatNext]_vars

\* call c has a user id, took the model path and its history query returned
HistoryLoaded(c) ==
    /\ calls[c].pc \notin {"idle", "received", "memory"}
    /\ calls[c].user_id # NoUser
    /\ calls[c].loaded_from >= 0

\* C15: for a non-greeting call with a user id whose history query returned,
\* the history is at most 5 messages of the call's (user, session), oldest
\* first, and, while the store is as the load found it, the most recent ones
\* (for every instant t as many of them are stamped t or later as stored
\* ones are, up to 5); the recap is the last 4 of the history, or all of it
\* when it is shorter, in the same order, each labelled User or Assistant
\* after its role; with nothing stored for the session the recap is empty.
C15_RecapOfHistory ==
    \A c \in Slots :
        HistoryLoaded(c) =>
            LET rows == calls[c].loaded_rows
                history == calls[c].chat_history
                recap == calls[c].conversation_context
                n == Len(history)
                stored == Filter(calls[c].user_id, calls[c].memory)
            IN  /\ Len(rows) = Min(5, calls[c].loaded_from)
                /\ \A k \in 1..Len(rows) :
                      /\ rows[k].user = calls[c].user_id
                      /\ rows[k].session_id = calls[c].memory
                /\ \A i, j \in 1..Len(rows) :
                      i < j => rows[i].timestamp <= rows[j].timestamp
                /\ calls[c].pc = "invoke" =>
                      \A t \in Instants :
                         Cardinality({k \in 1..Len(rows) : rows[k].timestamp >= t})
                           = Min(5, Cardinality({i \in stored :
                                                    ChatMemory[i].timestamp >= t}))
                /\ n = Len(rows)
                /\ \A k \in 1..n :
                      /\ history[k].content = rows[k].content
                      /\ (history[k].type = "HumanMessage")
                            <=> (rows[k].message_type = "user")
                /\ Len(recap) = Min(4, n)
                /\ \A k \in 1..Len(recap) :
                      LET m == history[n - Len(recap) + k]
                      IN  /\ recap[k].content = m.content
                          /\ recap[k].role \in {"User", "Assistant"}
                          /\ (recap[k].role = "User") <=> (m.type = "HumanMessage")
                /\ calls[c].loaded_from = 0 => recap = <<>>

\* C15 witness: a turn has loaded 5 of the 6 messages of its session, stamped
\* at different instants, and its recap holds the last 4 of them, a user
\* message first
C15_Witness ==
    \E c \in Slots :
        /\ HistoryLoaded(c)
        /\ calls[c].loaded_from = 6
        /\ Len(calls[c].chat_history) = 5
        /\ Len(calls[c].conversation_context) = 4
        /\ calls[c].conversation_context[1].role = "User"
        /\ calls[c].chat_history[1].type = "AIMessage"
        /\ calls[c].loaded_rows[1].timestamp < calls[c].loaded_rows[5].timestamp

(***************************************************************************)
(* The exception handler of run_fintech_agent on its own (HandlerSpec).    *)
(***************************************************************************)
\* words in the text of a failure
MaxWords == 3

\* the words the texts of failures are made of
Words ==
    {KeyMarker, <<"r","a","t","e">>, <<"l","i","m","i","t">>,
     <<"R","a","t","e">>, <<"L","I","M","I","T">>,
     <<"t","i","m","e","o","u","t">>, <<"4","2","9">>}

\* " ".join(words)
RECURSIVE Join(_)
Join(words) ==
    IF Len(words) = 0 THEN <<>>
    ELSE IF Len(words) = 1 THEN words[1]
         ELSE words[1] \o <<" ">> \o Join(Tail(words))

\* str(e) of the exceptions raised under the handler while the credential is
\* set: any text
ErrorTexts ==
    {Join(words) : words \in UNION {[1..n -> Words] : n \in 1..MaxWords}}

\* the text the handler returns for str(e) = error_msg: its kind and, for the
\* generic text, the characters after its prefix
Returned(error_msg) ==
    LET kind == Handled(error_msg)
    IN  [kind |-> kind, echoed |-> IF kind = "error" THEN error_msg ELSE <<>>]

\* get_fintech_agent raises for the missing credential and the handler
\* turns the exception into a text
MissingCredential ==
    /\ ~apiKey
    /\ probe' = [op |-> "failure", cause |-> "missing credential",
                 error_msg |-> MissingKeyMessage,
                 result |-> Returned(MissingKeyMessage)]
    /\ UNCHANGED <<storeVars, apiKey, uuids, started, calls, FinancialData>>

\* with the credential set, a later step (prompt, agent, model, tool) raises
\* and the handler turns the exception into a text
LaterFailure(error_msg) ==
    /\ apiKey
    /\ probe' = [op |-> "failure", cause |-> "other", error_msg |-> error_msg,
                 result |-> Returned(error_msg)]
    /\ UNCHANGED <<storeVars, apiKey, uuids, started, calls, FinancialData>>

HandlerNext ==
    \/ MissingCredential
    \/ \E error_msg \in ErrorTexts : LaterFailure(error_msg)

HandlerSpec == Init /\ [][HandlerNext]_vars

\* C16: a failure is turned into a text by its class: the missing credential
\* gives the configuration message; any other failure whose text contains
\* "rate limit" in any case gives the try-again message; every failure left
\* gives the generic text with the failure's text in it; the three texts are
\* different and each failure gets exactly one.
C16_FixedClassification ==
    probe.op = "failure" =>
        LET rate_limited == Contains(Lower(probe.error_msg), RateLimitMarker)
        IN  /\ probe.result.kind \in ErrorKinds
            /\ probe.cause = "missing credential" =>
                  probe.result.kind = "api_key_error"
            /\ (probe.cause # "missing credential" /\ rate_limited) =>
                  probe.result.kind = "rate_limit"
            /\ (probe.cause # "missing credential" /\ ~rate_limited) =>
                  /\ probe.result.kind = "error"
                  /\ probe.result.echoed = probe.error_msg

(***************************************************************************)
(* The tool catalog (agent.py, the functions under @tool).                 *)
(***************************************************************************)
\* None as an argument
NoneArg == "<None>"

\* amount is a float: it is held as its number of tenths
Tenths == 10
\* Decimal("0.01"): a converted amount is held as its number of hundredths
Hundredths == 100

\* the arguments of a tool call; a tool reads the ones it declares
Args(user_id, source_currency, target_currency, amount, bank_name, account_id) ==
    [user_id |-> user_id, source_currency |-> source_currency,
     target_currency |-> target_currency, amount |-> amount,
     bank_name |-> bank_name, account_id |-> account_id]

\* what the try block of a tool comes to: a returned text or an exception,
\* and the number of FXRate queries it has issued by then
Returns(text, fx_queries) ==
    [raised |-> "", text |-> text, fx_queries |-> fx_queries]
Raises(exception, fx_queries) ==
    [raised |-> exception, text |-> [kind |-> "none"], fx_queries |-> fx_queries]

\* "if bank_name:", "if account_id:"
Given(arg) == arg \notin {NoneArg, ""}

\* name__icontains=part
IContains(name, part) == Contains(Lower(Chars(name)), Lower(Chars(part)))

\* FXRate.objects.filter(source_currency=source_currency.upper(),
\* target_currency=target_currency.upper()), then, if bank_name,
\* .filter(FinancialInstitution__name__icontains=bank_name): positions of
\* the rows
RateFilter(data, source_currency, target_currency, bank_name) ==
    {i \in 1..Len(data.FXRate) :
        /\ Chars(data.FXRate[i].source_currency) = Upper(Chars(source_currency))
        /\ Chars(data.FXRate[i].target_currency) = Upper(Chars(target_currency))
        /\ Given(bank_name) =>
              IContains(data.FXRate[i].FinancialInstitution, bank_name)}

\* .order_by("-effective_date").first(): a row of the newest effective_date;
\* among rows of that date the database chooses
First(data, S) ==
    {i \in S : \A j \in S :
        data.FXRate[i].effective_date >= data.FXRate[j].effective_date}

\* the digits after the second decimal are cut off
QuantizeDown(product) == product \div ((Tenths * Millionths) \div Hundredths)

\* .quantize(Decimal("0.01"), rounding=ROUND_HALF_UP) of a product of an
\* amount (tenths) and a conversion_value (millionths): the nearest number of
\* hundredths, a half going away from zero
Quantize(product) ==
    LET unit == (Tenths * Millionths) \div Hundredths
        magnitude == IF product < 0 THEN -product ELSE product
        nearest == (magnitude + unit \div 2) \div unit
    IN  IF product < 0 THEN -nearest ELSE nearest

\* zero passes the amount test
RejectsNegative(amount) == amount < 0

\* if amount <= 0:
Rejects(amount) == amount <= 0

\* the try block of convert_currency: the possible outcomes
convert_currency(data, db_ok, source_currency, target_currency, amount, bank_name) ==
    IF Rejects(amount)
    THEN {Returns([kind |-> "positive amount required"], 0)}
    ELSE IF NoneArg \in {source_currency, target_currency}
    THEN {Raises("AttributeError", 0)}
    ELSE IF ~db_ok THEN {Raises("DatabaseError", 1)}
    ELSE LET S == RateFilter(data, source_currency, target_currency, bank_name)
         IN  IF S = {}
             THEN {Returns([kind |-> "no rate", source_currency |-> source_currency,
                            target_currency |-> target_currency], 1)}
             ELSE {Returns([kind |-> "conversion", amount |-> amount,
                            source_currency |-> source_currency,
                            converted_amount |->
                                Quantize(amount * data.FXRate[i].conversion_value),
                            target_currency |-> target_currency,
                            rate |-> data.FXRate[i].conversion_value,
                            institution |-> data.FXRate[i].FinancialInstitution,
                            effective_date |-> data.FXRate[i].effective_date], 1) :
                      i \in First(data, S)}

\* the tools that begin with User.objects.get(id=user_id)
UserLookupTools ==
    {"get_user_profile", "get_user_financial_overview",
     "get_user_account_summary", "get_user_connected_bank_products"}

\* the tools that begin with Accounts.objects.filter(user_id=user_id, ...)
AccountFilterTools ==
    {"get_user_accounts", "get_user_balance", "get_total_balance",
     "get_balance_summary", "check_account_balance"}

\* Accounts.objects.filter(user_id=user_id): positions of the rows
AccountsOf(data, user_id) ==
    {i \in 1..Len(data.Accounts) : data.Accounts[i].user = user_id}

\* available_balance__isnull=False
NotNull(balance) == balance # <<>>

\* "if account.available_balance:": None and Decimal("0.00") are false
Truthy(balance) == balance # <<>> /\ balance[1] # 0

\* a balance that is missing is stated as zero
ShownNullAsZero(balance, otherwise) ==
    IF balance = <<>> THEN [stated |-> "amount", amount |-> 0]
    ELSE IF Truthy(balance) THEN [stated |-> "amount", amount |-> balance[1]]
         ELSE [stated |-> otherwise]

\* what a tool states for the balance of an account: the amount under
\* "if account.available_balance:", otherwise "Not available" or nothing
Shown(balance, otherwise) ==
    IF Truthy(balance) THEN [stated |-> "amount", amount |-> balance[1]]
    ELSE [stated |-> otherwise]

\* the per-account part of a report, for accounts in query order
Lines(accounts, otherwise) ==
    [k \in 1..Len(accounts) |->
        [account_id |-> accounts[k].account_id,
         bank |-> accounts[k].financial_institution,
         currency |-> accounts[k].account_currency,
         status |-> accounts[k].account_status,
         balance |-> Shown(accounts[k].available_balance, otherwise)]]

\* a balance is added to the total of every currency met so far
AddedToEvery(before, account) ==
    [c \in DOMAIN before \cup {account.account_currency} |->
        LET start == IF c \in DOMAIN before THEN before[c]
                     ELSE [total |-> 0, count |-> 0, banks |-> {}]
        IN  [total |-> start.total + account.available_balance[1],
             count |-> start.count + 1,
             banks |-> start.banks \cup {account.financial_institution}]]

\* one pass of the loop that fills the dictionary keyed by account_currency:
\* a new key starts at Decimal("0"), then the balance is added to the total
\* of the account's currency
Added(before, account) ==
    LET currency == account.account_currency
        start == IF currency \in DOMAIN before THEN before[currency]
                 ELSE [total |-> 0, count |-> 0, banks |-> {}]
    IN  [c \in DOMAIN before \cup {currency} |->
            IF c = currency
            THEN [total |-> start.total + account.available_balance[1],
                  count |-> start.count + 1,
                  banks |-> start.banks \cup {account.financial_institution}]
            ELSE before[c]]

\* the dictionary after the loop over accounts (currency_totals,
\* balance_by_currency, currency_data, total_balance_by_currency): total is
\* reported by each of the tools, count and banks by get_balance_summary
RECURSIVE CurrencyTotals(_)
CurrencyTotals(accounts) ==
    IF accounts = <<>> THEN <<>>
    ELSE Added(CurrencyTotals(SubSeq(accounts, 1, Len(accounts) - 1)),
               accounts[Len(accounts)])

\* the text a tool builds from the accounts S its query returned
Report(tool, data, user_id, S) ==
    LET accounts == Rows(data.Accounts, S)
        summed ==
            IF tool = "get_total_balance" THEN S
            ELSE IF tool = "get_user_financial_overview"
            THEN {i \in S : NotNull(data.Accounts[i].available_balance)}
            ELSE IF tool \in {"get_balance_summary", "check_account_balance"}
            THEN {i \in S : Truthy(data.Accounts[i].available_balance)}
            ELSE {}
    IN  [kind |-> "report", tool |-> tool, user |-> user_id, accounts |-> S,
         lines |->
            IF tool = "get_user_accounts" THEN Lines(accounts, "omitted")
            ELSE IF tool \in {"get_user_balance", "check_account_balance",
                              "get_user_account_summary"}
            THEN Lines(accounts, "Not available")
            ELSE <<>>,
         totals |-> CurrencyTotals(Rows(data.Accounts, summed)),
         counts |->
            IF tool \in {"get_user_financial_overview", "get_balance_summary"}
            THEN [total_accounts |-> Cardinality(S),
                  active_accounts |->
                     Cardinality({i \in S :
                                     data.Accounts[i].account_status = "ACTIVE"}),
                  accounts_with_balance |->
                     Cardinality({i \in S :
                                     NotNull(data.Accounts[i].available_balance)})]
            ELSE <<>>]

\* the try block of a tool that looks the user up first: get raises
\* User.DoesNotExist for an unknown id (None included)
UserLookupBody(tool, data, db_ok, user_id) ==
    IF ~db_ok THEN {Raises("DatabaseError", 0)}
    ELSE IF user_id \notin data.User THEN {Raises("User.DoesNotExist", 0)}
    ELSE IF /\ AccountsOf(data, user_id) = {}
            /\ tool \in {"get_user_account_summary",
                         "get_user_connected_bank_products"}
         THEN {Returns([kind |-> "no accounts connected", tool |-> tool], 0)}
         ELSE {Returns(Report(tool, data, user_id, AccountsOf(data, user_id)), 0)}

\* the try block of a tool that filters Accounts by user: the filters of the
\* tool, then "if not accounts" (a None bank name is refused by icontains)
AccountFilterBody(tool, data, db_ok, user_id, bank_name, account_id) ==
    IF tool = "check_account_balance" /\ bank_name = NoneArg
    THEN {Raises("ValueError", 0)}
    ELSE IF ~db_ok THEN {Raises("DatabaseError", 0)}
    ELSE LET accounts ==
                 {i \in AccountsOf(data, user_id) :
                     /\ (tool = "get_user_balance" /\ Given(account_id)) =>
                           data.Accounts[i].account_id = account_id
                     /\ tool = "get_total_balance" =>
                           NotNull(data.Accounts[i].available_balance)
                     /\ tool = "check_account_balance" =>
                           IContains(data.Accounts[i].financial_institution,
                                     bank_name)}
         IN  IF accounts = {}
             THEN {Returns([kind |-> "no accounts", tool |-> tool], 0)}
             ELSE {Returns(Report(tool, data, user_id, accounts), 0)}

\* the try block of get_fx_rate and compare_fx_rates: upper() of a None
\* currency raises, then one query and "if not rates"
RatesBody(tool, data, db_ok, source_currency, target_currency, bank_name) ==
    IF NoneArg \in {source_currency, target_currency}
    THEN {Raises("AttributeError", 0)}
    ELSE IF ~db_ok THEN {Raises("DatabaseError", 1)}
    ELSE LET S == RateFilter(data, source_currency, target_currency,
                             IF tool = "get_fx_rate" THEN bank_name ELSE NoneArg)
         IN  IF S = {}
             THEN {Returns([kind |-> "no rates", tool |-> tool,
                            source_currency |-> source_currency,
                            target_currency |-> target_currency], 1)}
             ELSE {Returns([kind |-> "rates", tool |-> tool, rows |-> S], 1)}

\* compare_fx_rates lists sorted_rates[:5]
TopRates == 5

\* f"{value:.4f}": a rate is reported as its number of ten-thousandths
TenThousandths == 10000

\* .order_by("-effective_date") on the rows S: the orders the database may
\* return them in, newest first, rows of one date in any order
RECURSIVE OrderByDesc(_, _)
OrderByDesc(data, S) ==
    IF S = {} THEN {<<>>}
    ELSE UNION {{<<i>> \o rest : rest \in OrderByDesc(data, S \ {i})} :
                  i \in First(data, S)}

\* the last row met of an institution replaces the ones met before
LatestRatesOverwritten(data, rates) ==
    Rows(rates, {i \in 1..Len(rates) : \A j \in (i+1)..Len(rates) :
                    data.FXRate[rates[j]].FinancialInstitution
                       # data.FXRate[rates[i]].FinancialInstitution})

\* latest_rates: the first row met of each institution name, in the order met
LatestRates(data, rates) ==
    Rows(rates, {i \in 1..Len(rates) : \A j \in 1..(i-1) :
                    data.FXRate[rates[j]].FinancialInstitution
                       # data.FXRate[rates[i]].FinancialInstitution})

\* sorted(latest_rates.items(), key=conversion_value, reverse=True): highest
\* value first, rows of one value in the order they were in
RECURSIVE SortedRates(_, _)
SortedRates(data, latest) ==
    IF latest = <<>> THEN <<>>
    ELSE LET top == {i \in 1..Len(latest) : \A j \in 1..Len(latest) :
                        data.FXRate[latest[j]].conversion_value
                           <= data.FXRate[latest[i]].conversion_value}
             i == CHOOSE x \in top : \A y \in top : x <= y
         IN  <<latest[i]>>
                \o SortedRates(data, Rows(latest, (1..Len(latest)) \ {i}))

\* sum(rates_values)
RECURSIVE SumValues(_)
SumValues(values) ==
    IF values = <<>> THEN 0 ELSE Head(values) + SumValues(Tail(values))

\* f"{numerator/denominator:.4f}" of a non-negative Decimal held in
\* millionths: the nearest number of ten-thousandths, a half going to the
\* even one (the rounding of Decimal's format)
Format4(numerator, denominator) ==
    LET d == denominator * (Millionths \div TenThousandths)
        q == numerator \div d
        r == numerator % d
    IN  IF 2 * r < d THEN q
        ELSE IF 2 * r > d THEN q + 1
        ELSE IF q % 2 = 0 THEN q ELSE q + 1

\* the try block of compare_fx_rates: the possible outcomes
compare_fx_rates(data, db_ok, source_currency, target_currency) ==
    IF NoneArg \in {source_currency, target_currency}
    THEN {Raises("AttributeError", 0)}
    ELSE IF ~db_ok THEN {Raises("DatabaseError", 1)}
    ELSE LET S == RateFilter(data, source_currency, target_currency, NoneArg)
         IN  IF S = {}
             THEN {Returns([kind |-> "no rates", tool |-> "compare_fx_rates",
                            source_currency |-> source_currency,
                            target_currency |-> target_currency], 1)}
             ELSE {LET sorted_rates == SortedRates(data, LatestRates(data, rates))
                       rates_values ==
                           [k \in 1..Len(sorted_rates) |->
                               data.FXRate[sorted_rates[k]].conversion_value]
                       max == CHOOSE v \in {rates_values[k] : k \in 1..Len(rates_values)} :
                                 \A k \in 1..Len(rates_values) : rates_values[k] <= v
                       min == CHOOSE v \in {rates_values[k] : k \in 1..Len(rates_values)} :
                                 \A k \in 1..Len(rates_values) : v <= rates_values[k]
                   IN  Returns([kind |-> "comparison",
                                source_currency |-> source_currency,
                                target_currency |-> target_currency,
                                sorted_rates |-> sorted_rates,
                                listed |->
                                    [k \in 1..Min(TopRates, Len(sorted_rates)) |->
                                        [bank_name |->
                                            data.FXRate[sorted_rates[k]].FinancialInstitution,
                                         conversion_value |-> rates_values[k]]],
                                average |-> Format4(SumValues(rates_values),
                                                    Len(rates_values)),
                                best |-> Format4(max, 1),
                                worst |-> Format4(min, 1)], 1) :
                      rates \in OrderByDesc(data, S)}

\* the try block of get_bank_info and get_all_banks_info
BanksBody(tool, data, db_ok, bank_name) ==
    IF tool = "get_bank_info" /\ bank_name = NoneArg
    THEN {Raises("ValueError", 0)}
    ELSE IF ~db_ok THEN {Raises("DatabaseError", 0)}
    ELSE LET banks == {b \in data.FinancialInstitution :
                          tool = "get_bank_info" => IContains(b, bank_name)}
         IN  IF banks = {}
             THEN {Returns([kind |-> "no bank", tool |-> tool], 0)}
             ELSE {Returns([kind |-> "banks", tool |-> tool, banks |-> banks], 0)}

\* the try block of get_available_currencies (two queries) and of
\* get_popular_currency_pairs (one query for each of its six pairs)
CurrenciesBody(tool, data, db_ok) ==
    IF ~db_ok THEN {Raises("DatabaseError", 1)}
    ELSE {Returns([kind |-> "currencies", tool |-> tool,
                   currencies |->
                       {data.FXRate[i].source_currency : i \in 1..Len(data.FXRate)}
                       \cup
                       {data.FXRate[i].target_currency : i \in 1..Len(data.FXRate)}],
                  IF tool = "get_available_currencies" THEN 2 ELSE 6)}

\* the try block of a tool: the possible outcomes
Body(tool, data, db_ok, args) ==
    IF tool \in UserLookupTools
    THEN UserLookupBody(tool, data, db_ok, args.user_id)
    ELSE IF tool \in AccountFilterTools
    THEN AccountFilterBody(tool, data, db_ok, args.user_id, args.bank_name,
                           args.account_id)
    ELSE IF tool = "get_fx_rate"
    THEN RatesBody(tool, data, db_ok, args.source_currency,
                   args.target_currency, args.bank_name)
    ELSE IF tool = "compare_fx_rates"
    THEN compare_fx_rates(data, db_ok, args.source_currency,
                          args.target_currency)
    ELSE IF tool = "convert_currency"
    THEN convert_currency(data, db_ok, args.source_currency,
                          args.target_currency, args.amount, args.bank_name)
    ELSE IF tool \in {"get_bank_info", "get_all_banks_info"}
    THEN BanksBody(tool, data, db_ok, args.bank_name)
    ELSE CurrenciesBody(tool, data, db_ok)

\* only User.DoesNotExist is caught, any other exception leaves the tool
ExceptDoesNotExistOnly(tool, outcome) ==
    IF outcome.raised = "" THEN [raised |-> FALSE, text |-> outcome.text]
    ELSE IF outcome.raised = "User.DoesNotExist"
         THEN [raised |-> FALSE, text |-> [kind |-> "user not found"]]
         ELSE [raised |-> TRUE, text |-> [kind |-> "none"]]

\* the except clauses of a tool: "except User.DoesNotExist" where the tool
\* has it, and "except Exception as e" with the tool's error text
Except(tool, outcome) ==
    IF outcome.raised = "" THEN [raised |-> FALSE, text |-> outcome.text]
    ELSE IF outcome.raised = "User.DoesNotExist" /\ tool \in UserLookupTools
         THEN [raised |-> FALSE, text |-> [kind |-> "user not found"]]
         ELSE [raised |-> FALSE,
               text |-> [kind |-> "error", tool |-> tool,
                         detail |-> outcome.raised]]

\* the tool leaves a note of its call in the store
WrittenWithNote(tool, data) ==
    [data EXCEPT !.FinancialInstitution = @ \cup {tool}]

\* the tables after a tool has run: its body holds queries only (get, filter,
\* values_list, count, exists), no create, save, update or delete
Written(tool, data) == data

\* tool invocations in one behaviour of the catalog's specification
MaxInvocations == 2

\* how many tools have been invoked
Invocations == IF probe.op = "tool" THEN probe.n ELSE 0

\* the agent executor invokes a tool with arguments of the model's choosing;
\* db_ok is whether the store answers the queries of this call
InvokeTool(tool, args) ==
    /\ \E db_ok \in BOOLEAN :
       \E outcome \in Body(tool, FinancialData, db_ok, args) :
          probe' = [op |-> "tool", n |-> Invocations + 1, tool |-> tool,
                    args |-> args, db_ok |-> db_ok,
                    result |-> Except(tool, outcome),
                    fx_queries |-> outcome.fx_queries]
    /\ FinancialData' = Written(tool, FinancialData)
    /\ UNCHANGED <<storeVars, apiKey, uuids, started, calls>>

\* arguments a tool does not read
Unused == Args(NoUser, NoneArg, NoneArg, 0, NoneArg, NoneArg)

\* user ids the model may pass: a user, an unknown id, None
UserArgs == {1, 2, NoUser}

\* the argument values tried on each tool of the catalog
ToolArgs(tool) ==
    IF tool = "get_user_balance"
    THEN {[Unused EXCEPT !.user_id = u, !.account_id = a] :
             u \in {1, 2}, a \in {NoneArg, "A-1", "A-9"}}
    ELSE IF tool = "check_account_balance"
    THEN {[Unused EXCEPT !.user_id = u, !.bank_name = b] :
             u \in {1, 2}, b \in {NoneArg, "arab", "zzz"}}
    ELSE IF tool \in UserLookupTools \cup AccountFilterTools
    THEN {[Unused EXCEPT !.user_id = u] : u \in UserArgs}
    ELSE IF tool = "get_fx_rate"
    THEN {[Unused EXCEPT !.source_currency = src, !.target_currency = tgt,
                         !.bank_name = b] :
             src \in {"usd", NoneArg}, tgt \in {"JOD", "EUR"},
             b \in {NoneArg, "arab"}}
    ELSE IF tool = "compare_fx_rates"
    THEN {[Unused EXCEPT !.source_currency = src, !.target_currency = tgt] :
             src \in {"usd", NoneArg}, tgt \in {"JOD", "EUR"}}
    ELSE IF tool = "convert_currency"
    THEN {[Unused EXCEPT !.source_currency = src, !.target_currency = "JOD",
                         !.amount = amount, !.bank_name = b] :
             src \in {"usd", NoneArg}, amount \in {0, 1000},
             b \in {NoneArg, "zzz"}}
    ELSE IF tool = "get_bank_info"
    THEN {[Unused EXCEPT !.bank_name = b] : b \in {NoneArg, "", "arab", "zzz"}}
    ELSE {Unused}

\* the argument values tried on convert_currency alone: amounts of -1, 0,
\* 0.5, 10 and 100
ConvertArgs ==
    {[Unused EXCEPT !.source_currency = src, !.target_currency = tgt,
                    !.amount = amount, !.bank_name = b] :
        src \in {"USD", "usd", "JPY", NoneArg},
        tgt \in {"JOD", "EUR", NoneArg},
        amount \in {-10, 0, 5, 100, 1000},
        b \in {NoneArg, "", "arab", "zzz"}}

\* the memory store the tools run beside: empty, or with one exchange saved
MemoryTables ==
    {<<>>,
     <<[user |-> 1, session_id |-> "s1", message_type |-> "user",
        content |-> "balance", timestamp |-> 0],
       [user |-> 1, session_id |-> "s1", message_type |-> "assistant",
        content |-> "a1", timestamp |-> 0]>>}

ToolInit ==
    /\ ChatMemory \in MemoryTables
    /\ now = 0
    /\ loaded = NoLoad
    /\ apiKey = TRUE
    /\ uuids = 0
    /\ started = 0
    /\ calls = [c \in Slots |-> IdleCall]
    /\ FinancialData \in FinancialStores
    /\ probe = NoProbe

ToolNext ==
    \E tool \in Tools : \E args \in ToolArgs(tool) :
        /\ Invocations < MaxInvocations
        /\ InvokeTool(tool, args)

\* the tools of the catalog, invoked one after another
ToolSpec == ToolInit /\ [][ToolNext]_vars

ConvertNext ==
    \E args \in ConvertArgs :
        /\ Invocations = 0
        /\ InvokeTool("convert_currency", args)

\* convert_currency, invoked once on each store
ConvertSpec == ToolInit /\ [][ConvertNext]_vars

\* FXRate rows of six institutions quoting one pair
ComparePool ==
    <<[FinancialInstitution |-> "Arab Bank", source_currency |-> "USD",
       target_currency |-> "JOD", conversion_value |-> 709000, effective_date |-> 1],
      [FinancialInstitution |-> "Arab Bank", source_currency |-> "USD",
       target_currency |-> "JOD", conversion_value |-> 710000, effective_date |-> 2],
      [FinancialInstitution |-> "Arab Bank", source_currency |-> "USD",
       target_currency |-> "JOD", conversion_value |-> 711000, effective_date |-> 2],
      [FinancialInstitution |-> "Bank al Etihad", source_currency |-> "USD",
       target_currency |-> "JOD", conversion_value |-> 708000, effective_date |-> 2],
      [FinancialInstitution |-> "Cairo Amman Bank", source_currency |-> "USD",
       target_currency |-> "JOD", conversion_value |-> 707000, effective_date |-> 1],
      [FinancialInstitution |-> "Housing Bank", source_currency |-> "USD",
       target_currency |-> "JOD", conversion_value |-> 706000, effective_date |-> 3],
      [FinancialInstitution |-> "Jordan Kuwait Bank", source_currency |-> "USD",
       target_currency |-> "JOD", conversion_value |-> 706000, effective_date |-> 2],
      [FinancialInstitution |-> "Safwa Bank", source_currency |-> "USD",
       target_currency |-> "JOD", conversion_value |-> 700450, effective_date |-> 2],
      [FinancialInstitution |-> "Safwa Bank", source_currency |-> "JPY",
       target_currency |-> "JOD", conversion_value |-> 4500, effective_date |-> 3]>>

\* the stores compare_fx_rates is run on
CompareStores ==
    {[Store(Rows(ComparePool, S), <<>>) EXCEPT !.FinancialInstitution =
         {ComparePool[i].FinancialInstitution : i \in 1..Len(ComparePool)}] :
        S \in SUBSET (1..Len(ComparePool))}

\* the argument values tried on compare_fx_rates
CompareArgs ==
    {[Unused EXCEPT !.source_currency = src, !.target_currency = tgt] :
        src \in {"USD", "usd", "JPY", NoneArg}, tgt \in {"JOD", "EUR"}}

CompareInit ==
    /\ ChatMemory = <<>>
    /\ now = 0
    /\ loaded = NoLoad
    /\ apiKey = TRUE
    /\ uuids = 0
    /\ started = 0
    /\ calls = [c \in Slots |-> IdleCall]
    /\ FinancialData \in CompareStores
    /\ probe = NoProbe

CompareNext ==
    \E args \in CompareArgs :
        /\ Invocations = 0
        /\ InvokeTool("compare_fx_rates", args)

\* compare_fx_rates, invoked once on each store
CompareSpec == CompareInit /\ [][CompareNext]_vars

\* Accounts rows of two users at two banks in two currencies, with a missing
\* balance, a balance of 0.00 and an overdrawn one
BalancePool ==
    <<[user |-> 1, financial_institution |-> "Arab Bank", account_id |-> "A-1",
       account_currency |-> "JOD", available_balance |-> <<12050>>,
       account_status |-> "ACTIVE"],
      [user |-> 1, financial_institution |-> "Arab Bank", account_id |-> "A-2",
       account_currency |-> "USD", available_balance |-> <<30000>>,
       account_status |-> "ACTIVE"],
      [user |-> 1, financial_institution |-> "Bank al Etihad", account_id |-> "E-1",
       account_currency |-> "JOD", available_balance |-> <<>>,
       account_status |-> "INACTIVE"],
      [user |-> 1, financial_institution |-> "Bank al Etihad", account_id |-> "E-2",
       account_currency |-> "JOD", available_balance |-> <<0>>,
       account_status |-> "ACTIVE"],
      [user |-> 1, financial_institution |-> "Bank al Etihad", account_id |-> "E-3",
       account_currency |-> "JOD", available_balance |-> <<2500>>,
       account_status |-> "ACTIVE"],
      [user |-> 1, financial_institution |-> "Arab Bank", account_id |-> "A-3",
       account_currency |-> "USD", available_balance |-> <<-500>>,
       account_status |-> "ACTIVE"],
      [user |-> 2, financial_institution |-> "Arab Bank", account_id |-> "B-1",
       account_currency |-> "JOD", available_balance |-> <<700>>,
       account_status |-> "ACTIVE"]>>

\* the stores the balance tools are run on
BalanceStores ==
    {[Store(<<>>, Rows(BalancePool, S)) EXCEPT !.User = {1, 2}] :
        S \in SUBSET (1..Len(BalancePool))}

\* the tools that report balances
BalanceTools ==
    {"get_user_balance", "get_user_accounts", "get_total_balance",
     "get_balance_summary", "check_account_balance",
     "get_user_financial_overview", "get_user_account_summary"}

\* the argument values tried on the balance tools
BalanceArgs(tool) ==
    IF tool = "get_user_balance"
    THEN {[Unused EXCEPT !.user_id = u, !.account_id = a] :
             u \in {1, 2}, a \in {NoneArg, "E-2"}}
    ELSE IF tool = "check_account_balance"
    THEN {[Unused EXCEPT !.user_id = u, !.bank_name = b] :
             u \in {1, 2}, b \in {"", "arab"}}
    ELSE {[Unused EXCEPT !.user_id = u] : u \in {1, 2}}

BalanceInit ==
    /\ ChatMemory = <<>>
    /\ now = 0
    /\ loaded = NoLoad
    /\ apiKey = TRUE
    /\ uuids = 0
    /\ started = 0
    /\ calls = [c \in Slots |-> IdleCall]
    /\ FinancialData \in BalanceStores
    /\ probe = NoProbe

BalanceNext ==
    \E tool \in BalanceTools : \E args \in BalanceArgs(tool) :
        /\ Invocations = 0
        /\ InvokeTool(tool, args)

\* a balance tool, invoked once on each store
BalanceSpec == BalanceInit /\ [][BalanceNext]_vars

(***************************************************************************)
(* Properties of the tool catalog (ToolSpec).                              *)
(***************************************************************************)
ToolCalled == probe.op = "tool"

\* the texts a tool gives when it has nothing to report
RefusalKinds ==
    {"user not found", "no accounts", "no accounts connected", "no rate",
     "no rates", "no bank", "positive amount required", "error"}

C18_ToolsReadOnly ==
    [][probe' # probe =>
          /\ FinancialData' = FinancialData
          /\ ChatMemory' = ChatMemory]_vars

\* C18 witness: a second tool has been invoked beside stores that hold rows
C18_Witness ==
    /\ ToolCalled
    /\ probe.n = 2
    /\ ChatMemory # <<>>
    /\ Len(FinancialData.FXRate) = Len(RatePool)
    /\ Len(FinancialData.Accounts) = Len(AccountPool)
    /\ probe.result.text.kind = "report"

(***************************************************************************)
(* Properties of convert_currency (ConvertSpec).                           *)
(***************************************************************************)
\* C19: convert_currency with an amount of zero or less returns the
\* rejection text and nothing else: no rate query is issued and the result
\* holds no converted amount, whatever the currencies and the institution
\* filter.
C19_NonPositiveAmountRejected ==
    (ToolCalled /\ probe.tool = "convert_currency" /\ probe.args.amount <= 0) =>
        /\ ~probe.result.raised
        /\ probe.result.text = [kind |-> "positive amount required"]
        /\ probe.fx_queries = 0

\* C19 witness: an amount of zero with no source currency, over a store that
\* holds rates and does not answer
C19_Witness ==
    /\ ToolCalled
    /\ probe.tool = "convert_currency"
    /\ probe.args.amount = 0
    /\ probe.args.source_currency = NoneArg
    /\ probe.args.bank_name = "zzz"
    /\ ~probe.db_ok
    /\ Len(FinancialData.FXRate) > 0
    /\ probe.result.text.kind = "positive amount required"

\* the rows of FXRate of the pair asked for, of the institutions whose name
\* contains the filter when one is given, letter case aside
Asked ==
    {i \in 1..Len(FinancialData.FXRate) :
        LET r == FinancialData.FXRate[i]
        IN  /\ Lower(Chars(r.source_currency)) = Lower(Chars(probe.args.source_currency))
            /\ Lower(Chars(r.target_currency)) = Lower(Chars(probe.args.target_currency))
            /\ probe.args.bank_name \notin {NoneArg, ""} =>
                  Contains(Upper(Chars(r.FinancialInstitution)),
                           Upper(Chars(probe.args.bank_name)))}

\* C20: for an amount above zero, currencies given and the store answering,
\* convert_currency reports the amount times the conversion value of a row of
\* the latest effective date among those of the (source, target) pair and of
\* the institutions whose name contains the filter (if one is given, in any
\* letter case), rounded to two decimals, a half going up (100 at 0.709 is
\* 70.90, 10 at 0.0045 is 0.05); with no such row it returns the no-rate
\* text.
C20_ConvertsAtLatestRateHalfUp ==
    (/\ ToolCalled
     /\ probe.tool = "convert_currency"
     /\ probe.args.amount > 0
     /\ NoneArg \notin {probe.args.source_currency, probe.args.target_currency}
     /\ probe.db_ok) =>
        LET text == probe.result.text
            unit == (Tenths * Millionths) \div Hundredths
        IN  /\ ~probe.result.raised
            /\ Asked = {} => text.kind = "no rate"
            /\ Asked # {} =>
                  /\ text.kind = "conversion"
                  /\ \E i \in Asked :
                        /\ \A j \in Asked :
                              FinancialData.FXRate[j].effective_date
                                 <= FinancialData.FXRate[i].effective_date
                        /\ text.rate = FinancialData.FXRate[i].conversion_value
                        /\ text.institution =
                              FinancialData.FXRate[i].FinancialInstitution
                  /\ LET exact == probe.args.amount * text.rate
                         twice == 2 * (text.converted_amount * unit - exact)
                     IN  -unit < twice /\ twice <= unit
                  /\ (probe.args.amount = 100 * Tenths /\ text.rate = 709000) =>
                        text.converted_amount = 7090
                  /\ (probe.args.amount = 10 * Tenths /\ text.rate = 4500) =>
                        text.converted_amount = 5

\* C20 witness: 10 JPY at 0.0045, the rate of the one institution the filter
\* leaves: 0.045 is reported as 0.05
C20_Witness ==
    /\ ToolCalled
    /\ probe.tool = "convert_currency"
    /\ probe.db_ok
    /\ probe.args.amount = 10 * Tenths
    /\ probe.args.source_currency = "JPY"
    /\ probe.args.bank_name = ""
    /\ probe.result.text.kind = "conversion"
    /\ probe.result.text.rate = 4500
    /\ probe.result.text.converted_amount = 5

(***************************************************************************)
(* The greeting test on typed messages (GreetSpec).                        *)
(***************************************************************************)
\* the longest message, in words
MaxMessageWords == 4

\* the words users type
MessageWords ==
    {<<"h","i">>, <<"H","e","l","l","o">>, <<"h","i","s","t","o","r","y">>,
     <<"w","h","i","c","h">>, <<"b","a","n","k">>, <<"G","o","o","d">>,
     <<"m","o","r","n","i","n","g">>}

\* what precedes and follows the words of a message
Paddings == {<<>>, <<" ">>}

\* the prompt argument of run_fintech_agent: any text
TypedMessages ==
    {pad \o Join(words) \o pad :
        pad \in Paddings,
        words \in UNION {[1..n -> MessageWords] : n \in 1..MaxMessageWords}}

\* run_fintech_agent up to the greeting short-circuit
Receive(user_id, message) ==
    /\ probe' = [op |-> "receive", user_id |-> user_id, message |-> message,
                 greeting |-> is_greeting_message(message),
                 short_circuit |-> ShortCut(user_id, message)]
    /\ UNCHANGED <<storeVars, apiKey, uuids, started, calls, FinancialData>>

GreetNext ==
    \E user_id \in {NoUser, 1} : \E message \in TypedMessages :
        /\ probe = NoProbe
        /\ Receive(user_id, message)

\* one message received, whatever the message
GreetSpec == Init /\ [][GreetNext]_vars

Received == probe.op = "receive"

\* the words of a text, in order: its maximal runs of non-whitespace characters
RECURSIVE WordsOf(_)
WordsOf(s) ==
    LET inked == {i \in 1..Len(s) : s[i] \notin WhiteSpace}
    IN  IF inked = {} THEN <<>>
        ELSE LET lo == CHOOSE i \in inked : \A j \in inked : i <= j
                 gaps == {j \in lo..Len(s) : s[j] \in WhiteSpace}
                 hi == IF gaps = {} THEN Len(s)
                       ELSE (CHOOSE j \in gaps : \A k \in gaps : j <= k) - 1
             IN  <<SubSeq(s, lo, hi)>> \o WordsOf(SubSeq(s, hi + 1, Len(s)))

\* the text with its leading and trailing whitespace removed
Trimmed(s) ==
    LET inked == {i \in 1..Len(s) : s[i] \notin WhiteSpace}
    IN  [k \in 1..Cardinality({i \in 1..Len(s) :
                    \E a, b \in inked : a <= i /\ i <= b}) |->
            s[k - 1 + CHOOSE a \in inked : \A b \in inked : a <= b]]

\* word occurs in s from position i on
OccursAt(s, word, i) ==
    /\ i >= 1
    /\ i + Len(word) - 1 <= Len(s)
    /\ \A k \in 1..Len(word) : s[i + k - 1] = word[k]

\* C25: is_greeting_message(m) is true exactly when the lower-cased, trimmed
\* message is a greeting word, or starts with one, or the message has at most
\* three words and a greeting word occurs somewhere in it; false otherwise.
C25_GreetingExactly ==
    Received =>
        LET m == Lower(Trimmed(probe.message))
        IN  probe.greeting <=>
              \/ m \in greeting_words
              \/ \E word \in greeting_words : OccursAt(m, word, 1)
              \/ /\ Len(WordsOf(probe.message)) <= 3
                 /\ \E word \in greeting_words :
                       \E i \in 1..Len(m) : OccursAt(m, word, i)

\* C25 witness: a padded three-word message that does not start with a
\* greeting word and holds one inside is a greeting
C25_Witness ==
    /\ Received
    /\ probe.greeting
    /\ probe.message[1] = " "
    /\ Len(WordsOf(probe.message)) = 3
    /\ \A word \in greeting_words :
          ~OccursAt(Lower(Trimmed(probe.message)), word, 1)

\* a greeting word stands in s as whole words
WholeWord(s, word) ==
    LET ws == WordsOf(Lower(s))
        g == WordsOf(word)
    IN  \E i \in 1..(Len(ws) - Len(g) + 1) : SubSeq(ws, i, i + Len(g) - 1) = g

\* C30: a message of an authenticated user is answered with the greeting
\* only if a greeting word stands in it as a whole word; a message that holds
\* the letters of a greeting word only inside other words goes on to the
\* model.
C30_GreetingOnlyOnWholeWord ==
    (Received /\ probe.short_circuit) =>
        \E word \in greeting_words : WholeWord(probe.message, word)

(***************************************************************************)
(* Properties of compare_fx_rates (CompareSpec).                           *)
(***************************************************************************)
Compared ==
    /\ ToolCalled
    /\ probe.tool = "compare_fx_rates"
    /\ probe.result.text.kind = "comparison"

\* the values of the rates the comparison displays
ListedValues ==
    {probe.result.text.listed[k].conversion_value :
        k \in 1..Len(probe.result.text.listed)}

\* C21: the best, worst and average rate compare_fx_rates reports are the
\* highest, the lowest and the mean of the rates it lists, however many
\* institutions quote the pair.
C21_StatisticsOfListedRates ==
    Compared =>
        LET listed == probe.result.text.listed
            values == [k \in 1..Len(listed) |-> listed[k].conversion_value]
        IN  /\ \E v \in ListedValues :
                  /\ \A w \in ListedValues : w <= v
                  /\ probe.result.text.best = Format4(v, 1)
            /\ \E v \in ListedValues :
                  /\ \A w \in ListedValues : v <= w
                  /\ probe.result.text.worst = Format4(v, 1)
            /\ probe.result.text.average = Format4(SumValues(values), Len(values))

\* the rows of FXRate of the pair asked for, letter case of the arguments
\* aside
OfPair ==
    {i \in 1..Len(FinancialData.FXRate) :
        /\ Chars(FinancialData.FXRate[i].source_currency)
              = Upper(Chars(probe.args.source_currency))
        /\ Chars(FinancialData.FXRate[i].target_currency)
              = Upper(Chars(probe.args.target_currency))}

\* C22: the rates compared for a pair are one row for each institution that
\* has a rate of the pair, that row being one of the institution's rows of
\* the pair with the latest effective date, in descending order of value;
\* the list shows the leading rows of that order, and the average is the
\* mean of the compared rows: a row of another pair is in none of them.
C22_LatestRatePerInstitution ==
    Compared =>
        LET rows == probe.result.text.sorted_rates
            rate(k) == FinancialData.FXRate[rows[k]]
            listed == probe.result.text.listed
        IN  /\ \A k \in 1..Len(rows) :
                  /\ rows[k] \in OfPair
                  /\ \A i \in OfPair :
                        FinancialData.FXRate[i].FinancialInstitution
                              = rate(k).FinancialInstitution
                           => FinancialData.FXRate[i].effective_date
                                 <= rate(k).effective_date
            /\ \A i \in OfPair : \E k \in 1..Len(rows) :
                  rate(k).FinancialInstitution
                     = FinancialData.FXRate[i].FinancialInstitution
            /\ \A k, l \in 1..Len(rows) :
                  /\ k # l => rate(k).FinancialInstitution # rate(l).FinancialInstitution
                  /\ k < l => rate(k).conversion_value >= rate(l).conversion_value
            /\ Len(listed) = Min(TopRates, Len(rows))
            /\ \A k \in 1..Len(listed) :
                  /\ listed[k].bank_name = rate(k).FinancialInstitution
                  /\ listed[k].conversion_value = rate(k).conversion_value
            /\ probe.result.text.average =
                  Format4(SumValues([k \in 1..Len(rows) |-> rate(k).conversion_value]),
                          Len(rows))

\* C22 witness: an institution with an older and a newer rate of the pair
\* and a rate of another pair in the store; the newer rate is compared
C22_Witness ==
    /\ Compared
    /\ \E i, j \in OfPair :
          /\ FinancialData.FXRate[i].FinancialInstitution
                = FinancialData.FXRate[j].FinancialInstitution
          /\ FinancialData.FXRate[i].effective_date
                < FinancialData.FXRate[j].effective_date
          /\ \E k \in 1..Len(probe.result.text.sorted_rates) :
                probe.result.text.sorted_rates[k] = j
    /\ OfPair # 1..Len(FinancialData.FXRate)
    /\ Len(probe.result.text.sorted_rates) >= 2

(***************************************************************************)
(* Properties of the balance tools (BalanceSpec).                          *)
(***************************************************************************)
BalanceReported ==
    /\ ToolCalled
    /\ probe.tool \in BalanceTools
    /\ probe.result.text.kind = "report"

\* the accounts a balance tool is asked about: those of the user, at the
\* banks whose name holds the filter for check_account_balance, of the
\* account id given for get_user_balance
Scope ==
    {i \in 1..Len(FinancialData.Accounts) :
        LET a == FinancialData.Accounts[i]
        IN  /\ a.user = probe.args.user_id
            /\ probe.tool = "check_account_balance" =>
                  Contains(Lower(Chars(a.financial_institution)),
                           Lower(Chars(probe.args.bank_name)))
            /\ (probe.tool = "get_user_balance"
                   /\ probe.args.account_id \notin {NoneArg, ""}) =>
                  a.account_id = probe.args.account_id}

NullAccounts == {i \in Scope : FinancialData.Accounts[i].available_balance = <<>>}

\* the accounts of the scope in currency c that have a balance
Held(c) ==
    {i \in Scope \ NullAccounts : FinancialData.Accounts[i].account_currency = c}

\* the sum of the balances of the accounts S
RECURSIVE SumOf(_)
SumOf(S) ==
    IF S = {} THEN 0
    ELSE LET i == CHOOSE x \in S : TRUE
         IN  FinancialData.Accounts[i].available_balance[1] + SumOf(S \ {i})

\* the totals of a report are, currency by currency, the sums of the
\* balances held in that currency
TotalsAreSums ==
    LET totals == probe.result.text.totals
    IN  /\ \A c \in DOMAIN totals :
              /\ Held(c) # {}
              /\ totals[c].total = SumOf(Held(c))
        /\ \A i \in Scope \ NullAccounts :
              FinancialData.Accounts[i].available_balance # <<0>> =>
                 FinancialData.Accounts[i].account_currency \in DOMAIN totals

LineOf(i) ==
    {probe.result.text.lines[k] : k \in {k \in 1..Len(probe.result.text.lines) :
        probe.result.text.lines[k].account_id = FinancialData.Accounts[i].account_id}}

NullBalanceCase ==
    /\ BalanceReported
    /\ probe.tool \in {"get_total_balance", "get_balance_summary",
                       "check_account_balance"}
    /\ NullAccounts # {}

\* no account without a balance is stated with an amount
NeverAsZero ==
    \A i \in NullAccounts : \A line \in LineOf(i) : line.balance.stated # "amount"

\* C24 as stated: in get_total_balance, get_balance_summary and
\* check_account_balance an account whose balance is missing is left out of
\* every per-currency sum, is not shown as 0, and is counted or reported
\* separately.
C24_NullCountedSeparately ==
    NullBalanceCase =>
        /\ TotalsAreSums
        /\ NeverAsZero
        /\ \/ \A i \in NullAccounts : \E line \in LineOf(i) :
                 line.balance.stated = "Not available"
           \/ /\ probe.result.text.counts # <<>>
              /\ probe.result.text.counts.total_accounts
                    - probe.result.text.counts.accounts_with_balance
                       = Cardinality(NullAccounts)

\* C24 amended: an account whose balance is missing is left out of every
\* per-currency sum and is never shown as 0; check_account_balance lists it
\* as "Not available", get_balance_summary counts it among the accounts and
\* not among those with balance data, and get_total_balance leaves it out of
\* its answer altogether.
C24_NullNeverZero ==
    NullBalanceCase =>
        /\ TotalsAreSums
        /\ NeverAsZero
        /\ probe.tool = "check_account_balance" =>
              \A i \in NullAccounts : \E line \in LineOf(i) :
                 line.balance.stated = "Not available"
        /\ probe.tool = "get_balance_summary" =>
              probe.result.text.counts.total_accounts
                 - probe.result.text.counts.accounts_with_balance
                    = Cardinality(NullAccounts)
        /\ probe.tool = "get_total_balance" =>
              /\ probe.result.text.accounts = Scope \ NullAccounts
              /\ probe.result.text.lines = <<>>
              /\ probe.result.text.counts = <<>>

\* C24 witness: check_account_balance over an account without a balance and
\* accounts with one
C24_Witness ==
    /\ NullBalanceCase
    /\ probe.tool = "check_account_balance"
    /\ DOMAIN probe.result.text.totals # {}

\* the sum of the per-currency account counts of get_balance_summary
RECURSIVE CountsOf(_, _)
CountsOf(totals, C) ==
    IF C = {} THEN 0
    ELSE LET c == CHOOSE x \in C : TRUE
         IN  totals[c].count + CountsOf(totals, C \ {c})

\* C29: an account whose balance is exactly 0.00 is shown with the amount
\* 0.00 by get_user_balance, get_user_accounts, check_account_balance and
\* get_user_account_summary, and in get_balance_summary the per-currency
\* account counts add up to the count of accounts with balance data.
C29_ZeroIsABalance ==
    BalanceReported =>
        /\ probe.tool \in {"get_user_balance", "get_user_accounts",
                           "check_account_balance", "get_user_account_summary"} =>
              \A i \in Scope :
                 FinancialData.Accounts[i].available_balance = <<0>> =>
                    \E line \in LineOf(i) :
                       line.balance = [stated |-> "amount", amount |-> 0]
        /\ probe.tool = "get_balance_summary" =>
              CountsOf(probe.result.text.totals, DOMAIN probe.result.text.totals)
                 = probe.result.text.counts.accounts_with_balance

(***************************************************************************)
(* Persistence of an exchange, isolation of sessions, the recap over       *)
(* successive calls.                                                       *)
(***************************************************************************)
\* the (user, session) pairs that have messages in the store
StoredPairs ==
    {<<ChatMemory[i].user, ChatMemory[i].session_id>> : i \in 1..Len(ChatMemory)}

\* the messages of a (user, session), in the order they were inserted
Session(user_id, session_id) ==
    SelectSeq(ChatMemory,
              LAMBDA r : r.user = user_id /\ r.session_id = session_id)

\* C26: the user message and the assistant reply of a call are persisted as
\* a unit: in every state, whatever the interleaving of calls on a (user,
\* session) and whether or not an append fails, the messages of a session are
\* user message and reply, pair after pair: no user message is stored
\* without its reply and no other call's message lies between the two.
C26_ExchangePersistedAsUnit ==
    \A pair \in StoredPairs :
        LET rows == Session(pair[1], pair[2])
        IN  /\ Len(rows) % 2 = 0
            /\ \A k \in 1..Len(rows) :
                  rows[k].message_type = IF k % 2 = 1 THEN "user" ELSE "assistant"

\* C27: memory is isolated per (user id, session id): after any step, the
\* rows a call's history was built from are all of the call's own user and
\* session, the history and the recap hold the contents of those rows and
\* of no other, and a step that removes messages (a clear) removes those of
\* one (user, session) and leaves every other message as it was.
C27_MemoryIsolated ==
    [][/\ \A c \in Slots :
             (calls'[c].pc \notin {"idle", "received", "memory"}
                 /\ calls'[c].user_id # NoUser) =>
                LET rows == calls'[c].loaded_rows
                    history == calls'[c].chat_history
                    recap == calls'[c].conversation_context
                IN  /\ \A k \in 1..Len(rows) :
                          /\ rows[k].user = calls'[c].user_id
                          /\ rows[k].session_id = calls'[c].memory
                    /\ Len(history) = Len(rows)
                    /\ \A k \in 1..Len(history) : history[k].content = rows[k].content
                    /\ Len(recap) <= Len(history)
                    /\ \A k \in 1..Len(recap) :
                          recap[k].content
                             = history[Len(history) - Len(recap) + k].content
       /\ Len(ChatMemory') < Len(ChatMemory) =>
             \E u \in UserIds :
                /\ ChatMemory' = Others(ChatMemory, u, "s1")
                /\ Session(u, "s1") # <<>>]_vars

\* C27 witness: user 2 has loaded an empty history for session "s1" while
\* the store holds the messages user 1 saved under the same session id
C27_Witness ==
    \E c \in Slots :
        /\ calls[c].pc = "invoke"
        /\ calls[c].user_id = 2
        /\ calls[c].memory = "s1"
        /\ calls[c].loaded_from = 0
        /\ calls[c].chat_history = <<>>
        /\ Len(Session(1, "s1")) = 2

\* the calls before this one have each saved their two messages
EarlierTurnsSaved(c) ==
    /\ HistoryLoaded(c)
    /\ calls[c].pc = "invoke"
    /\ started >= 2
    /\ Len(ChatMemory) = 2 * (started - 1)

\* C28: when the calls of one (user, session) come one after another, each
\* saving its two messages before the next begins, the recap of call n+1 is
\* the messages of the last min(n, 2) calls: each call's user message
\* immediately followed by its reply, the older call first.
C28_RecapOfLastTwoCalls ==
    \A c \in Slots :
        EarlierTurnsSaved(c) =>
            LET recap == calls[c].conversation_context
            IN  /\ Len(recap) = 2 * Min(started - 1, 2)
                /\ \A k \in 1..Len(recap) :
                      recap[k] = IF k % 2 = 1
                                 THEN [role |-> "User", content |-> "balance"]
                                 ELSE [role |-> "Assistant", content |-> "a1"]
====
